---- MODULE Spec2Model ----
(***************************************************************************)
(* Model of the cluster vote listener (core/src/cluster_info_vote_listener *)
(* .rs): the VoteTracker with its per-slot trackers, the processor loop    *)
(* (process_votes_loop), filter_and_confirm_with_new_votes and the buses   *)
(* it publishes on; the three threads with their channels and the exit     *)
(* flag, verify_votes, and the packet forwarder (bank_send_loop).          *)
(***************************************************************************)
EXTENDS Integers, Sequences, FiniteSets, TLC

(***************************************************************************)
(* Bounds of the model.                                                    *)
(***************************************************************************)
\* highest slot the root of bank_forks advances to
MaxRoot == 2
\* number of listen_and_confirm_votes calls that receive votes
MaxCalls == 2

\* the wait of listen_and_confirm_votes, in steps of the clock
MaxWait == 2

\* the inputs that arrive while the three threads run
MaxFetch == 1

\* length of the inputs of verify_votes
MaxLen == 3
MaxThreads == 2
MaxTxs == 2
MaxSlot == 5
MaxKeys == 3
MaxBatches == 1
MaxBacklog == 2

(***************************************************************************)
(* The environment: keys, hashes, the epoch schedule and the epoch stakes  *)
(* of the banks (solana_sdk / solana_runtime, outside this file).          *)
(***************************************************************************)
VoteAccountKeys == {"v1", "v2"}
Hashes == {"H0", "H1"}
NodeKey == "node"

SLOTS_PER_EPOCH == 2

\* EpochSchedule::get_epoch
get_epoch(slot) == slot \div SLOTS_PER_EPOCH

\* Bank::get_leader_schedule_epoch (leader_schedule_slot_offset = slots_per_epoch)
get_leader_schedule_epoch(slot) == get_epoch(slot) + 1

\* Bank::epoch_stakes(epoch).is_some() for the bank of slot `bank_slot`
has_epoch_stakes(bank_slot, epoch) == epoch <= get_leader_schedule_epoch(bank_slot)

\* EpochStakes::stakes().vote_accounts(): the staked vote accounts of an epoch
vote_accounts(epoch) ==
    IF epoch % 2 = 0 THEN [v \in {"v1", "v2"} |-> IF v = "v1" THEN 2 ELSE 1]
    ELSE [v \in {"v1"} |-> 1]

RECURSIVE SumOver(_, _)
SumOver(f, S) ==
    IF S = {} THEN 0
    ELSE LET x == CHOOSE y \in S : TRUE IN f[x] + SumOver(f, S \ {x})

\* EpochStakes::total_stake()
total_stake(epoch) == SumOver(vote_accounts(epoch), DOMAIN vote_accounts(epoch))

\* EpochStakes::epoch_authorized_voters(): vote account -> authorized voter
bank_epoch_authorized_voters(epoch) ==
    IF epoch % 2 = 0 THEN [v \in {"v1", "v2"} |-> IF v = "v1" THEN "v1" ELSE "k2"]
    ELSE [v \in {"v1"} |-> "k1"]

\* replay_stage::DUPLICATE_THRESHOLD (0.52) and commitment::VOTE_THRESHOLD_SIZE
\* (2/3), as numerator and denominator
DUPLICATE_THRESHOLD == <<13, 25>>
VOTE_THRESHOLD_SIZE == <<2, 3>>
\* as THRESHOLDS_TO_CHECK, the two fractions in the other order
THRESHOLDS_TO_CHECK_Swapped == <<VOTE_THRESHOLD_SIZE, DUPLICATE_THRESHOLD>>

\* as THRESHOLDS_TO_CHECK, with fractions a minority of the stake passes
THRESHOLDS_TO_CHECK_Minority == << <<1, 4>>, <<1, 4>> >>

THRESHOLDS_TO_CHECK == <<DUPLICATE_THRESHOLD, VOTE_THRESHOLD_SIZE>>

(***************************************************************************)
(* Votes and vote transactions.                                            *)
(***************************************************************************)
\* the (slots, hash) pairs the validators vote for; slots ascend, the last is the tip
VoteContents ==
    { [slots |-> <<1>>, hash |-> "H0"],
      [slots |-> <<1>>, hash |-> "H1"],
      [slots |-> <<1, 2>>, hash |-> "H0"],
      [slots |-> <<3, 4>>, hash |-> "H0"] }

\* vote_transaction::new_vote_transaction: the payer and the authorized voter sign,
\* the vote account is a signer only when it is the authorized voter itself
new_vote_transaction(vote_account, vote, authorized_voter) ==
    [ account_keys |-> IF authorized_voter = vote_account
                       THEN <<NodeKey, vote_account>>
                       ELSE <<NodeKey, authorized_voter, vote_account>>,
      num_required_signatures |-> 2,
      vote_account |-> vote_account,
      vote |-> vote ]

\* the keys that sign the transactions of a vote account: v1 itself or k1, its
\* authorized voter of the odd epochs; k2, the authorized voter of v2
SignerOf(v) == IF v = "v1" THEN {"v1", "k1"} ELSE {"k2"}

GossipTxs ==
    { new_vote_transaction(v, c, k) : <<v, c, k>> \in
        { <<v, c, k>> \in VoteAccountKeys \X VoteContents \X {"v1", "v2", "k1", "k2"} :
            k \in SignerOf(v) } }

\* a vote whose slots all lie in epoch 2, which the banks of slots 0 and 1 do not know
UnknownEpochVote == [slots |-> <<4, 5>>, hash |-> "H0"]

\* ReplayedVote: (vote_pubkey, vote, switch_proof_hash)
ReplayedVotes ==
    { [vote_pubkey |-> v, vote |-> c] : <<v, c>> \in VoteAccountKeys \X VoteContents }
    \cup { [vote_pubkey |-> "v1", vote |-> UnknownEpochVote] }

\* vote_transaction::parse_vote_transaction
parse_vote_transaction(tx) == [vote_pubkey |-> tx.vote_account, vote |-> tx.vote]

\* Message::is_signer
is_signer(tx, i) == i <= tx.num_required_signatures

(***************************************************************************)
(* VoteStakeTracker (vote_stake_tracker.rs)                                *)
(***************************************************************************)
NewVoteStakeTracker == [voted |-> {}, stake |-> 0, thresholds_crossed |-> {}]

\* add_vote_pubkey: ([threshold i newly crossed], is_new) and the tracker after
add_vote_pubkey(t, vote_pubkey, stake, total_epoch_stake, thresholds) ==
    LET is_new == vote_pubkey \notin t.voted
        new_stake == t.stake + stake
        over(i) == new_stake * thresholds[i][2] > thresholds[i][1] * total_epoch_stake
        reached == [i \in 1..Len(thresholds) |->
                        is_new /\ i \notin t.thresholds_crossed /\ over(i)]
    IN  [ tracker |-> IF is_new
                      THEN [voted |-> t.voted \cup {vote_pubkey},
                            stake |-> new_stake,
                            thresholds_crossed |-> t.thresholds_crossed \cup
                                {i \in 1..Len(thresholds) : reached[i]}]
                      ELSE t,
          reached |-> reached,
          is_new |-> is_new ]

(***************************************************************************)
(* SlotVoteTracker and VoteTracker                                         *)
(***************************************************************************)
EmptyMap == [x \in {} |-> TRUE]

\* Option<Vec<Pubkey>>
None == [is_some |-> FALSE, vec |-> <<>>]
Some(vec) == [is_some |-> TRUE, vec |-> vec]

NewSlotVoteTracker ==
    [ voted |-> EmptyMap,
      optimistic_votes_tracker |-> EmptyMap,
      voted_slot_updates |-> None,
      gossip_only_stake |-> 0 ]

\* F applied to the value of e, which is computed once
Let(e, F(_)) == CHOOSE y \in {F(x) : x \in {e}} : TRUE

\* f with key k bound to v
Put(f, k, v) == [x \in DOMAIN f \cup {k} |-> IF x = k THEN v ELSE f[x]]

\* VoteTracker::get_or_insert_slot_tracker, on the map of trackers
get_or_insert_slot_tracker(trackers, slot) ==
    IF slot \in DOMAIN trackers THEN trackers ELSE Put(trackers, slot, NewSlotVoteTracker)

\* SlotVoteTracker::get_or_insert_optimistic_votes_tracker
get_or_insert_optimistic_votes_tracker(st, hash) ==
    IF hash \in DOMAIN st.optimistic_votes_tracker THEN st
    ELSE [st EXCEPT !.optimistic_votes_tracker = Put(@, hash, NewVoteStakeTracker)]

\* as get_authorized_voter, falling back to any epoch that knows the pubkey
get_authorized_voter_AnyEpoch(eav, pubkey, slot) ==
    LET epoch == get_epoch(slot)
        known == {e \in DOMAIN eav : pubkey \in DOMAIN eav[e]}
    IN  IF epoch \in DOMAIN eav /\ pubkey \in DOMAIN eav[epoch]
        THEN <<TRUE, eav[epoch][pubkey]>>
        ELSE IF known # {} THEN <<TRUE, eav[CHOOSE e \in known : TRUE][pubkey]>>
        ELSE <<FALSE, "">>

\* VoteTracker::get_authorized_voter: <<found, key>>
get_authorized_voter(eav, pubkey, slot) ==
    LET epoch == get_epoch(slot) IN
    IF epoch \in DOMAIN eav /\ pubkey \in DOMAIN eav[epoch]
    THEN <<TRUE, eav[epoch][pubkey]>>
    ELSE <<FALSE, "">>

\* as vote_contains_authorized_voter, without the is_signer test
vote_contains_authorized_voter_AnyKey(vote_tx, authorized_voter) ==
    \E i \in 1..Len(vote_tx.account_keys) : vote_tx.account_keys[i] = authorized_voter

\* as vote_contains_authorized_voter, looking at the first account key only
vote_contains_authorized_voter_FirstKey(vote_tx, authorized_voter) ==
    \E i \in 1..Len(vote_tx.account_keys) :
        i = 1 /\ is_signer(vote_tx, i) /\ vote_tx.account_keys[i] = authorized_voter

\* VoteTracker::vote_contains_authorized_voter
vote_contains_authorized_voter(vote_tx, authorized_voter) ==
    \E i \in 1..Len(vote_tx.account_keys) :
        is_signer(vote_tx, i) /\ vote_tx.account_keys[i] = authorized_voter

\* as progress_leader_schedule_epoch, leaving leader_schedule_epoch as it was
progress_leader_schedule_epoch_KeepsEpoch(vt, root_slot) ==
    LET start_leader_schedule_epoch == vt.leader_schedule_epoch
        range == start_leader_schedule_epoch..get_leader_schedule_epoch(root_slot)
        missing == {e \in range : e \notin DOMAIN vt.epoch_authorized_voters}
    IN  [vt EXCEPT
            !.epoch_authorized_voters =
                [e \in DOMAIN @ \cup missing |->
                    IF e \in missing THEN bank_epoch_authorized_voters(e) ELSE @[e]]]

\* VoteTracker::progress_leader_schedule_epoch, on the VoteTracker's fields
progress_leader_schedule_epoch(vt, root_slot) ==
    LET start_leader_schedule_epoch == vt.leader_schedule_epoch
        range == start_leader_schedule_epoch..get_leader_schedule_epoch(root_slot)
        missing == {e \in range : e \notin DOMAIN vt.epoch_authorized_voters}
        greatest_leader_schedule_epoch ==
            IF missing = {} THEN start_leader_schedule_epoch
            ELSE CHOOSE e \in missing : \A f \in missing : f <= e
    IN  [vt EXCEPT
            !.epoch_authorized_voters =
                [e \in DOMAIN @ \cup missing |->
                    IF e \in missing THEN bank_epoch_authorized_voters(e) ELSE @[e]],
            !.leader_schedule_epoch =
                IF greatest_leader_schedule_epoch # start_leader_schedule_epoch
                THEN greatest_leader_schedule_epoch ELSE @]

\* as RetainedSlots, with the comparison turned round
RetainedSlots_Inverted(slots, new_root) == {slot \in slots : slot <= new_root}

\* purge_stale_state: the slots whose tracker is kept
RetainedSlots(slots, new_root) == {slot \in slots : slot >= new_root}

\* as RetainedEpochs, purging nothing
RetainedEpochs_KeepsAll(epochs, root_epoch) == epochs

\* purge_stale_state: the epochs whose authorized voters are kept
RetainedEpochs(epochs, root_epoch) == {epoch \in epochs : epoch >= root_epoch}

\* as purge_stale_state, current_epoch left as it was
purge_stale_state_KeepsCurrentEpoch(vt, root_slot) ==
    LET new_root == root_slot
        root_epoch == get_epoch(root_slot)
        kept == RetainedSlots(DOMAIN vt.slot_vote_trackers, new_root)
        purged == [vt EXCEPT !.slot_vote_trackers = [s \in kept |-> @[s]]]
    IN  IF root_epoch # vt.current_epoch
        THEN [purged EXCEPT
                !.epoch_authorized_voters =
                    [e \in RetainedEpochs(DOMAIN @, root_epoch) |-> @[e]]]
        ELSE purged

\* VoteTracker::purge_stale_state
purge_stale_state(vt, root_slot) ==
    LET new_root == root_slot
        root_epoch == get_epoch(root_slot)
        kept == RetainedSlots(DOMAIN vt.slot_vote_trackers, new_root)
        purged == [vt EXCEPT !.slot_vote_trackers = [s \in kept |-> @[s]]]
    IN  IF root_epoch # vt.current_epoch
        THEN [purged EXCEPT
                !.epoch_authorized_voters =
                    [e \in RetainedEpochs(DOMAIN @, root_epoch) |-> @[e]],
                !.current_epoch = root_epoch]
        ELSE purged

\* VoteTracker::progress_with_new_root_bank
progress_with_new_root_bank(vt, root_slot) ==
    purge_stale_state(progress_leader_schedule_epoch(vt, root_slot), root_slot)

\* VoteTracker::new
NewVoteTracker(root_slot) ==
    progress_with_new_root_bank(
        [ slot_vote_trackers |-> EmptyMap,
          epoch_authorized_voters |-> EmptyMap,
          leader_schedule_epoch |-> get_epoch(root_slot),
          current_epoch |-> get_epoch(root_slot) ],
        root_slot)

(***************************************************************************)
(* filter_and_confirm_with_new_votes                                       *)
(***************************************************************************)
\* as track_optimistic_confirmation_vote, adding the stake of a pubkey seen before
track_optimistic_confirmation_vote_NoDedup(trackers, slot, hash, pubkey, stake, total_epoch_stake) ==
    Let(get_or_insert_optimistic_votes_tracker(
            get_or_insert_slot_tracker(trackers, slot)[slot], hash),
        LAMBDA w_slot_tracker :
    Let(add_vote_pubkey(w_slot_tracker.optimistic_votes_tracker[hash], pubkey, stake,
                        total_epoch_stake, THRESHOLDS_TO_CHECK),
        LAMBDA r :
        [ trackers |-> Put(trackers, slot,
                           [w_slot_tracker EXCEPT !.optimistic_votes_tracker[hash] =
                               [r.tracker EXCEPT !.stake =
                                   w_slot_tracker.optimistic_votes_tracker[hash].stake + stake]]),
          reached_threshold_results |-> r.reached,
          is_new |-> r.is_new ]))

\* ClusterInfoVoteListener::track_optimistic_confirmation_vote
track_optimistic_confirmation_vote(trackers, slot, hash, pubkey, stake, total_epoch_stake) ==
    Let(get_or_insert_optimistic_votes_tracker(
            get_or_insert_slot_tracker(trackers, slot)[slot], hash),
        LAMBDA w_slot_tracker :
    Let(add_vote_pubkey(w_slot_tracker.optimistic_votes_tracker[hash], pubkey, stake,
                        total_epoch_stake, THRESHOLDS_TO_CHECK),
        LAMBDA r :
        [ trackers |-> Put(trackers, slot,
                           [w_slot_tracker EXCEPT !.optimistic_votes_tracker[hash] = r.tracker]),
          reached_threshold_results |-> r.reached,
          is_new |-> r.is_new ]))

Last(seq) == seq[Len(seq)]

Reverse(seq) == [i \in 1..Len(seq) |-> seq[Len(seq) + 1 - i]]

\* as SlotsAfterRoot, without the filter on the root
SlotsAfterRoot_NoRootFilter(slots, root) == Reverse(slots)

\* the slots of a vote the loop visits: those after the root, last first
SlotsAfterRoot(slots, root) == Reverse(SelectSeq(slots, LAMBDA slot : slot > root))

\* as StakeOf, the stake taken from the vote accounts of epoch 0
StakeOf_FirstEpoch(epoch, vote_pubkey) ==
    IF vote_pubkey \in DOMAIN vote_accounts(0) THEN vote_accounts(0)[vote_pubkey] ELSE 0

\* the stake of a vote account in an epoch, 0 without a vote account
StakeOf(epoch, vote_pubkey) ==
    IF vote_pubkey \in DOMAIN vote_accounts(epoch) THEN vote_accounts(epoch)[vote_pubkey] ELSE 0

\* as SendsGossipVerifiedVoteHash, without the test of is_new
SendsGossipVerifiedVoteHash_IgnoresIsNew(is_gossip_vote, is_new, stake) ==
    is_gossip_vote /\ stake > 0

\* whether the tip's (pubkey, slot, hash) goes to gossip_verified_vote_hash_sender
SendsGossipVerifiedVoteHash(is_gossip_vote, is_new, stake) ==
    is_gossip_vote /\ is_new /\ stake > 0

\* diff.entry(slot).or_default().entry(pubkey).and_modify(|| or is_gossip).or_insert(is_gossip)
DiffInsert(diff, slot, vote_pubkey, is_gossip_vote) ==
    LET slot_diff == IF slot \in DOMAIN diff THEN diff[slot] ELSE EmptyMap
        seen == IF vote_pubkey \in DOMAIN slot_diff
                THEN slot_diff[vote_pubkey] \/ is_gossip_vote
                ELSE is_gossip_vote
    IN  Put(diff, slot, Put(slot_diff, vote_pubkey, seen))

\* the buses of process_votes_loop that are channels
BusNames == {"gossip_verified_vote_hash", "duplicate_confirmed", "bank_notification",
             "verified_vote"}

\* Sender::send on an unbounded channel, its result kept in the state of the
\* call: the message is queued when the receiver lives, and Err(SendError)
\* comes back, with nothing queued, when the receiver was dropped
Send(ps, bus, msg, senders) ==
    IF bus \in senders.receivers
    THEN [ps EXCEPT ![bus] = Append(@, msg)]
    ELSE [ps EXCEPT !.send_failed = TRUE]

\* as TrackLastVoteSlot, the (slot, hash) pushed only inside `if let Some(sender)`
TrackLastVoteSlot_PushesWhenNotifying(ps, vote, vote_pubkey, is_gossip_vote, senders) ==
    LET last_vote_slot == Last(vote.slots)
        last_vote_hash == vote.hash
        epoch == get_epoch(last_vote_slot)
        stake == StakeOf(epoch, vote_pubkey)
    IN  Let(track_optimistic_confirmation_vote(ps.slot_vote_trackers, last_vote_slot,
                last_vote_hash, vote_pubkey, stake, total_stake(epoch)),
            LAMBDA r :
        LET tracked == [ps EXCEPT !.slot_vote_trackers = r.trackers]
            hash_sent ==
                IF SendsGossipVerifiedVoteHash(is_gossip_vote, r.is_new, stake)
                THEN Send(tracked, "gossip_verified_vote_hash",
                          <<vote_pubkey, last_vote_slot, last_vote_hash>>, senders)
                ELSE tracked
            duplicate_sent ==
                IF r.reached_threshold_results[1] /\ senders.cluster_confirmed_slot
                THEN Send(hash_sent, "duplicate_confirmed",
                          << <<last_vote_slot, last_vote_hash>> >>, senders)
                ELSE hash_sent
            pushed ==
                IF r.reached_threshold_results[2] /\ senders.bank_notification
                THEN [duplicate_sent EXCEPT !.new_optimistic_confirmed_slots =
                          Append(@, <<last_vote_slot, last_vote_hash>>)]
                ELSE duplicate_sent
            notified ==
                IF r.reached_threshold_results[2] /\ senders.bank_notification
                THEN Send(pushed, "bank_notification", last_vote_slot, senders)
                ELSE pushed
        IN  [ ps |-> notified, is_new |-> r.is_new ])

\* the body of the loop of track_new_votes_and_notify_confirmations for the last
\* vote slot, up to the early return; ps is the state of the call
TrackLastVoteSlot(ps, vote, vote_pubkey, is_gossip_vote, senders) ==
    LET last_vote_slot == Last(vote.slots)
        last_vote_hash == vote.hash
        epoch == get_epoch(last_vote_slot)
        stake == StakeOf(epoch, vote_pubkey)
    IN  Let(track_optimistic_confirmation_vote(ps.slot_vote_trackers, last_vote_slot,
                last_vote_hash, vote_pubkey, stake, total_stake(epoch)),
            LAMBDA r :
        LET tracked == [ps EXCEPT !.slot_vote_trackers = r.trackers]
            hash_sent ==
                IF SendsGossipVerifiedVoteHash(is_gossip_vote, r.is_new, stake)
                THEN Send(tracked, "gossip_verified_vote_hash",
                          <<vote_pubkey, last_vote_slot, last_vote_hash>>, senders)
                ELSE tracked
            duplicate_sent ==
                IF r.reached_threshold_results[1] /\ senders.cluster_confirmed_slot
                THEN Send(hash_sent, "duplicate_confirmed",
                          << <<last_vote_slot, last_vote_hash>> >>, senders)
                ELSE hash_sent
            pushed ==
                IF r.reached_threshold_results[2]
                THEN [duplicate_sent EXCEPT !.new_optimistic_confirmed_slots =
                          Append(@, <<last_vote_slot, last_vote_hash>>)]
                ELSE duplicate_sent
            notified ==
                IF r.reached_threshold_results[2] /\ senders.bank_notification
                THEN Send(pushed, "bank_notification", last_vote_slot, senders)
                ELSE pushed
        IN  [ ps |-> notified, is_new |-> r.is_new ])

\* as SkipsSlot, taking every slot
SkipsSlot_Never(root, slot) == FALSE

\* `continue` of the loop: the root bank has no epoch stakes for the slot's epoch
SkipsSlot(root, slot) == ~has_epoch_stakes(root, get_epoch(slot))

\* as IsLastVoteSlot, every slot of the vote taken for its last
IsLastVoteSlot_AnySlot(vote, slot) == TRUE

\* slot == last_vote_slot: the slot qualifies for optimistic confirmation
IsLastVoteSlot(vote, slot) == slot = Last(vote.slots)

\* as ReturnsEarly, a vote of replay treated as one of gossip
ReturnsEarly_Never(is_new, is_gossip_vote) == FALSE

\* `if !is_new && !is_gossip_vote { return; }`: a vote of replay seen before
\* for this slot and hash holds nothing new
ReturnsEarly(is_new, is_gossip_vote) == ~is_new /\ ~is_gossip_vote

\* the loop of track_new_votes_and_notify_confirmations from position i of the
\* visited slots; returned is the early return for a replayed vote seen before
RECURSIVE TrackSlots(_, _, _, _, _, _, _, _, _)
TrackSlots(ps, visited, i, vote, vote_pubkey, root, is_gossip_vote, is_new_vote, senders) ==
    IF i > Len(visited) THEN [ps |-> ps, is_new_vote |-> is_new_vote, returned |-> FALSE]
    ELSE
    LET slot == visited[i] IN
    IF SkipsSlot(root, slot)
    THEN TrackSlots(ps, visited, i + 1, vote, vote_pubkey, root, is_gossip_vote,
                    is_new_vote, senders)
    ELSE IF IsLastVoteSlot(vote, slot)
    THEN Let(TrackLastVoteSlot(ps, vote, vote_pubkey, is_gossip_vote, senders),
             LAMBDA t :
         IF ReturnsEarly(t.is_new, is_gossip_vote)
         THEN [ps |-> t.ps, is_new_vote |-> is_new_vote, returned |-> TRUE]
         ELSE TrackSlots([t.ps EXCEPT !.diff = DiffInsert(@, slot, vote_pubkey, is_gossip_vote)],
                         visited, i + 1, vote, vote_pubkey, root, is_gossip_vote,
                         t.is_new, senders))
    ELSE TrackSlots([ps EXCEPT !.diff = DiffInsert(@, slot, vote_pubkey, is_gossip_vote)],
                    visited, i + 1, vote, vote_pubkey, root, is_gossip_vote,
                    is_new_vote, senders)

\* as track_new_votes_and_notify_confirmations, notifying for every vote whose
\* slots were visited to the end
track_new_votes_and_notify_confirmations_NotifiesEveryVote(ps, vote, vote_pubkey, root, is_gossip_vote, senders) ==
    IF Len(vote.slots) = 0 THEN ps
    ELSE
    Let(TrackSlots(ps, SlotsAfterRoot(vote.slots, root), 1, vote, vote_pubkey, root,
                   is_gossip_vote, FALSE, senders),
        LAMBDA r :
        IF ~r.returned
        THEN Send([r.ps EXCEPT !.notify_vote = Append(@, vote)], "verified_vote",
                  <<vote_pubkey, vote.slots>>, senders)
        ELSE r.ps)

\* ClusterInfoVoteListener::track_new_votes_and_notify_confirmations
track_new_votes_and_notify_confirmations(ps, vote, vote_pubkey, root, is_gossip_vote, senders) ==
    IF Len(vote.slots) = 0 THEN ps
    ELSE
    Let(TrackSlots(ps, SlotsAfterRoot(vote.slots, root), 1, vote, vote_pubkey, root,
                   is_gossip_vote, FALSE, senders),
        LAMBDA r :
        IF ~r.returned /\ r.is_new_vote
        THEN Send([r.ps EXCEPT !.notify_vote = Append(@, vote)], "verified_vote",
                  <<vote_pubkey, vote.slots>>, senders)
        ELSE r.ps)

\* ClusterInfoVoteListener::filter_gossip_votes
filter_gossip_votes(eav, vote_pubkey, vote, gossip_tx) ==
    IF Len(vote.slots) = 0 THEN FALSE
    ELSE
    LET actual_authorized_voter == get_authorized_voter(eav, vote_pubkey, Last(vote.slots)) IN
    IF ~actual_authorized_voter[1] THEN FALSE
    ELSE vote_contains_authorized_voter(gossip_tx, actual_authorized_voter[2])

\* the votes the loop of filter_and_confirm_with_new_votes visits: the gossip
\* transactions that parse and pass filter_gossip_votes, then the replayed votes
RECURSIVE ChainGossip(_, _, _)
ChainGossip(eav, gossip_vote_txs, i) ==
    IF i > Len(gossip_vote_txs) THEN <<>>
    ELSE LET gossip_tx == gossip_vote_txs[i]
             p == parse_vote_transaction(gossip_tx)
         IN  (IF filter_gossip_votes(eav, p.vote_pubkey, p.vote, gossip_tx)
              THEN <<[is_gossip |-> TRUE, vote_pubkey |-> p.vote_pubkey, vote |-> p.vote]>>
              ELSE <<>>) \o ChainGossip(eav, gossip_vote_txs, i + 1)

\* as ChainedVotes, the replayed votes chained before the gossip votes
ChainedVotes_ReplayFirst(eav, gossip_vote_txs, replayed_votes) ==
    [i \in 1..Len(replayed_votes) |->
        [is_gossip |-> FALSE, vote_pubkey |-> replayed_votes[i].vote_pubkey,
         vote |-> replayed_votes[i].vote]]
    \o ChainGossip(eav, gossip_vote_txs, 1)

\* gossip_vote_txs filtered and tagged, chained with the replayed votes
ChainedVotes(eav, gossip_vote_txs, replayed_votes) ==
    ChainGossip(eav, gossip_vote_txs, 1) \o
    [i \in 1..Len(replayed_votes) |->
        [is_gossip |-> FALSE, vote_pubkey |-> replayed_votes[i].vote_pubkey,
         vote |-> replayed_votes[i].vote]]

\* as StopsAt, the Err of a send ending the loop over the votes
StopsAt_FailedSend(ps) == ps.send_failed

\* whether the loop over the votes ends before a vote: the result of every send
\* is dropped (`let _ =`) or logged (unwrap_or_else), none is returned
StopsAt(ps) == FALSE

RECURSIVE TrackAll(_, _, _, _, _)
TrackAll(ps, chain, i, root, senders) ==
    IF i > Len(chain) \/ StopsAt(ps) THEN ps
    ELSE Let(track_new_votes_and_notify_confirmations(ps, chain[i].vote,
                 chain[i].vote_pubkey, root, chain[i].is_gossip, senders),
             LAMBDA tracked : TrackAll(tracked, chain, i + 1, root, senders))

\* as RetainedInDiff, keeping every pubkey of the diff
RetainedInDiff_Everything(voted, pubkey, seen_in_gossip_above) == TRUE

\* as RetainedInDiff, keeping only the pubkeys new for the slot
RetainedInDiff_OnlyNew(voted, pubkey, seen_in_gossip_above) == pubkey \notin DOMAIN voted

\* as RetainedInDiff, keeping every pubkey seen in gossip now
RetainedInDiff_AnyGossip(voted, pubkey, seen_in_gossip_above) ==
    pubkey \notin DOMAIN voted \/ seen_in_gossip_above

\* the closure of slot_diff.retain: the pubkey is new for the slot, or was not
\* seen in gossip before and is seen in gossip now
RetainedInDiff(voted, pubkey, seen_in_gossip_above) ==
    LET is_new == pubkey \notin DOMAIN voted
        is_new_from_gossip == ~(IF is_new THEN FALSE ELSE voted[pubkey]) /\ seen_in_gossip_above
    IN  is_new \/ is_new_from_gossip

\* as sum_stake, with the epoch stakes of the epoch of the root
sum_stake_OfRootEpoch(root, epoch, pubkey) ==
    IF pubkey \in DOMAIN vote_accounts(get_epoch(root))
    THEN vote_accounts(get_epoch(root))[pubkey] ELSE 0

\* ClusterInfoVoteListener::sum_stake, as the amount added
sum_stake(root, epoch, pubkey) ==
    IF has_epoch_stakes(root, epoch) /\ pubkey \in DOMAIN vote_accounts(epoch)
    THEN vote_accounts(epoch)[pubkey] ELSE 0

\* one turn of the loop over diff: the tracker of `slot` after slot_diff is
\* folded in; order is the order in which the map slot_diff is iterated
FoldSlotDiff(slot_tracker, slot, slot_diff, root, order) ==
    LET kept == {pubkey \in DOMAIN slot_diff :
                    RetainedInDiff(slot_tracker.voted, pubkey, slot_diff[pubkey])}
        in_gossip == {pubkey \in kept : slot_diff[pubkey]}
        added == [pubkey \in in_gossip |-> sum_stake(root, get_epoch(slot), pubkey)]
        gossip_only_stake == SumOver(added, in_gossip)
    IN  [ voted |-> [pubkey \in DOMAIN slot_tracker.voted \cup kept |->
                        IF pubkey \in kept THEN slot_diff[pubkey]
                        ELSE slot_tracker.voted[pubkey]],
          optimistic_votes_tracker |-> slot_tracker.optimistic_votes_tracker,
          voted_slot_updates |->
              Some(slot_tracker.voted_slot_updates.vec \o
                   SelectSeq(order, LAMBDA pubkey : pubkey \in kept)),
          gossip_only_stake |-> slot_tracker.gossip_only_stake + gossip_only_stake ]

\* the loop over diff at the end of filter_and_confirm_with_new_votes
FoldDiff(ps, root, order) ==
    [ps EXCEPT !.slot_vote_trackers =
        [slot \in DOMAIN ps.slot_vote_trackers \cup DOMAIN ps.diff |->
            IF slot \in DOMAIN ps.diff
            THEN FoldSlotDiff(get_or_insert_slot_tracker(ps.slot_vote_trackers, slot)[slot],
                              slot, ps.diff[slot], root, order)
            ELSE ps.slot_vote_trackers[slot]]]

\* ClusterInfoVoteListener::filter_and_confirm_with_new_votes: the state of the
\* call at its end; `sent` holds what was sent on each bus so far
filter_and_confirm_with_new_votes(vt, gossip_vote_txs, replayed_votes, root, sent, senders, order) ==
    LET chain == ChainedVotes(vt.epoch_authorized_voters, gossip_vote_txs, replayed_votes)
        ps0 == [ slot_vote_trackers |-> vt.slot_vote_trackers,
                 diff |-> EmptyMap,
                 new_optimistic_confirmed_slots |-> <<>>,
                 gossip_verified_vote_hash |-> sent.gossip_verified_vote_hash,
                 duplicate_confirmed |-> sent.duplicate_confirmed,
                 bank_notification |-> sent.bank_notification,
                 notify_vote |-> sent.notify_vote,
                 verified_vote |-> sent.verified_vote,
                 send_failed |-> FALSE ]
    IN  Let(TrackAll(ps0, chain, 1, root, senders), LAMBDA ps : FoldDiff(ps, root, order))

(***************************************************************************)
(* The processor thread (process_votes_loop)                               *)
(***************************************************************************)
VARIABLES
    vote_tracker,       \* the VoteTracker
    root_bank,          \* slot of the root bank the loop holds in this iteration
    buses,              \* what was sent on each outbound bus, in order
    confirmed_slots,    \* the lists listen_and_confirm_votes returned, concatenated
    last_progress_root, \* root bank of the last progress_with_new_root_bank
    calls,              \* number of calls that received votes
    seen,               \* which votes were processed, by origin
    last_call           \* what the batch of the call just made held

\* the state of process_votes_loop and of what it sends
pvars == <<vote_tracker, root_bank, buses, confirmed_slots, last_progress_root, calls,
           seen, last_call>>

VARIABLES
    exit,                       \* the shared AtomicBool
    pc,                         \* where each thread is: "loop", "listen", "done"
    gossip_vote_txs_receiver,   \* channel recv_loop -> process_votes_loop, a queue of Vec<Transaction>
    verified_vote_label_packets_receiver, \* channel recv_loop -> bank_send_loop
    replay_votes_receiver,      \* channel replay stage -> process_votes_loop
    replay_votes_sender_alive,  \* the replay stage holds its sender
    verified_packets_receiver_alive, \* the banking stage holds its receiver
    remaining_wait_time,        \* of listen_and_confirm_votes
    wakeups,                    \* the wakeups of this call that drained nothing
    verified_vote_packets,      \* VerifiedVotePackets of bank_send_loop
    bank_vote_sender_state_option, \* Option<BankVoteSenderState>
    verified_packets,           \* what the last iteration of bank_send_loop sent
    sent_to_bank,               \* the signatures sent since the working bank had this slot
    reported_metrics,           \* the last report_metrics: slot and stats
    fetches,                    \* number of inputs that arrived (gossip votes, replayed votes)
    recv_count,                 \* the counter cluster_info_vote_listener-recv_count
    recv_votes,                 \* recv_loop: what verify_votes returned and is being sent
    verified,                   \* a call of verify_votes: its input and its result
    working_bank,               \* PohRecorder::bank: the slot of the leader bank, 0 without one
    would_be_leader             \* PohRecorder::would_be_leader

VARIABLES
    call,                       \* a call of a function of VoteTracker: its arguments and its result
    compute_cost_time,          \* QosServiceMetrics::compute_cost_time
    compute_cost_count,         \* QosServiceMetrics::compute_cost_count
    last_report,                \* QosServiceMetrics::last_report, 0 before the first update
    running_flag,               \* QosService::running_flag
    qos_pc,                     \* where each thread of the QosService is
    txs_costs,                  \* per calling thread, the length of the list it computed
    reported_count,             \* the sum of the compute_cost_count values reported
    receivers_alive,            \* the buses of process_votes_loop whose receiver lives
    last_batch,                 \* the batch of the last call of listen_and_confirm_votes
    configured,                 \* the buses of process_votes_loop whose Option<Sender> is Some
    shared                      \* a VoteTracker behind its locks, and the threads that use it

\* the state of the calls of single functions and of the QosService
fvars == <<call, compute_cost_time, compute_cost_count, last_report, running_flag,
           qos_pc, txs_costs, reported_count, receivers_alive, last_batch,
           configured, shared>>

tvars == <<exit, pc, gossip_vote_txs_receiver, verified_vote_label_packets_receiver,
           replay_votes_receiver, replay_votes_sender_alive,
           verified_packets_receiver_alive, remaining_wait_time, wakeups, verified_vote_packets,
           bank_vote_sender_state_option, verified_packets, sent_to_bank,
           reported_metrics, fetches, recv_count, recv_votes, verified, fvars,
           working_bank, would_be_leader>>

vars == <<vote_tracker, root_bank, buses, confirmed_slots, last_progress_root, calls,
          seen, last_call, exit, pc, gossip_vote_txs_receiver,
          verified_vote_label_packets_receiver, replay_votes_receiver,
          replay_votes_sender_alive, verified_packets_receiver_alive,
          remaining_wait_time, wakeups, verified_vote_packets, bank_vote_sender_state_option,
          verified_packets, sent_to_bank, reported_metrics, fetches, recv_count,
          recv_votes, verified, fvars,
          working_bank, would_be_leader>>

\* the state of the three threads of the listener
lvars == <<exit, pc, gossip_vote_txs_receiver, verified_vote_label_packets_receiver,
           replay_votes_receiver, replay_votes_sender_alive,
           verified_packets_receiver_alive, remaining_wait_time, wakeups, verified_vote_packets,
           bank_vote_sender_state_option, verified_packets, sent_to_bank,
           reported_metrics, fetches, recv_count, recv_votes, verified, working_bank,
           would_be_leader>>

\* the state of the QosService
qvars == <<compute_cost_time, compute_cost_count, last_report, running_flag, qos_pc,
           txs_costs, reported_count>>

\* the senders process_votes_loop hands to listen_and_confirm_votes
LoopSenders ==
    [cluster_confirmed_slot |-> "duplicate_confirmed" \in configured,
     bank_notification |-> "bank_notification" \in configured,
     receivers |-> receivers_alive]

\* the batches a call drains from its two channels: one gossip transaction, one
\* replayed vote, one of each, or the same vote of every validator (both from
\* gossip, one from gossip and one from replay, both from replay)
SameVoteOfAll(c) ==
    { << <<new_vote_transaction("v1", c, "v1"), new_vote_transaction("v2", c, "k2")>>, <<>> >>,
      << <<new_vote_transaction("v2", c, "k2")>>, <<[vote_pubkey |-> "v1", vote |-> c]>> >>,
      << <<>>, <<[vote_pubkey |-> "v1", vote |-> c], [vote_pubkey |-> "v2", vote |-> c]>> >> }

Batches ==
    { << <<g>>, <<>> >> : g \in GossipTxs }
    \cup { << <<>>, <<r>> >> : r \in ReplayedVotes }
    \cup { << <<g>>, <<r>> >> : <<g, r>> \in
             { <<g, r>> \in GossipTxs \X ReplayedVotes :
                 g.vote_account = r.vote_pubkey /\ g.vote = r.vote } }
    \cup UNION { SameVoteOfAll(c) : c \in VoteContents }

\* the orders in which a HashMap<Pubkey, bool> may be iterated
Orders == { <<"v1", "v2">>, <<"v2", "v1">> }

(***************************************************************************)
(* History of the run, kept beside the program's state                     *)
(***************************************************************************)
\* the vote reaches track_optimistic_confirmation_vote: its last slot is after
\* the root and in an epoch the root bank has stakes for
TipProcessed(c, root) ==
    /\ Len(c.vote.slots) > 0
    /\ Last(c.vote.slots) > root
    /\ has_epoch_stakes(root, get_epoch(Last(c.vote.slots)))

TipKey(c) == <<c.vote_pubkey, Last(c.vote.slots), c.vote.hash>>

Origin(c) == IF c.is_gossip THEN "gossip" ELSE "replay"

\* tip_first: the origin of the first processed vote of each (voter, tip, hash);
\* tip_repeat: the origins of the processed votes of it that came after the first;
\* slot_gossip: the (voter, slot) a processed gossip vote held;
\* slot_any: the (voter, slot) a vote of the chain held, the slot being after the
\* root and of an epoch the root bank knows;
\* tip_order: (voter, slots) of the first delivery of each (voter, tip, hash), in
\* the order of delivery
SeenAfter(old, chain, root) ==
    LET tips == {i \in 1..Len(chain) : TipProcessed(chain[i], root)}
        keys == {TipKey(chain[i]) : i \in tips}
        first(k) == CHOOSE i \in tips : TipKey(chain[i]) = k /\
                        \A j \in tips : TipKey(chain[j]) = k => i <= j
    IN  [ tip_first |->
              [k \in DOMAIN old.tip_first \cup keys |->
                  IF k \in DOMAIN old.tip_first THEN old.tip_first[k]
                  ELSE Origin(chain[first(k)])],
          tip_repeat |->
              old.tip_repeat \cup
              { <<TipKey(chain[i]), Origin(chain[i])>> : i \in
                  { i \in tips : TipKey(chain[i]) \in DOMAIN old.tip_first
                                 \/ i # first(TipKey(chain[i])) } },
          slot_gossip |->
              old.slot_gossip \cup
              { <<chain[p[1]].vote_pubkey, chain[p[1]].vote.slots[p[2]]>> : p \in
                  { p \in (1..Len(chain)) \X (1..2) :
                      /\ chain[p[1]].is_gossip
                      /\ p[2] <= Len(chain[p[1]].vote.slots)
                      /\ chain[p[1]].vote.slots[p[2]] > root
                      /\ has_epoch_stakes(root, get_epoch(chain[p[1]].vote.slots[p[2]])) } },
          slot_any |->
              old.slot_any \cup
              { <<chain[p[1]].vote_pubkey, chain[p[1]].vote.slots[p[2]]>> : p \in
                  { p \in (1..Len(chain)) \X (1..2) :
                      /\ p[2] <= Len(chain[p[1]].vote.slots)
                      /\ chain[p[1]].vote.slots[p[2]] > root
                      /\ has_epoch_stakes(root, get_epoch(chain[p[1]].vote.slots[p[2]])) } },
          tip_order |-> old.tip_order ]

\* the account keys of a transaction at the signer positions
Signers(tx) == {tx.account_keys[i] : i \in 1..tx.num_required_signatures}

\* the transaction is not signed by the authorized voter of its vote account
\* in the epoch of its last slot, or that epoch or account has none
NotAuthorized(eav, tx) ==
    LET epoch == get_epoch(Last(tx.vote.slots)) IN
        \/ epoch \notin DOMAIN eav
        \/ tx.vote_account \notin DOMAIN eav[epoch]
        \/ eav[epoch][tx.vote_account] \notin Signers(tx)

\* the votes of a batch in the order of their delivery: the authorized gossip
\* transactions as received, then the replayed votes as received
DeliveredVotes(eav, gossip_vote_txs, replayed_votes) ==
    LET kept == SelectSeq(gossip_vote_txs, LAMBDA tx : ~NotAuthorized(eav, tx)) IN
    [i \in 1..Len(kept) |-> [is_gossip |-> TRUE, vote_pubkey |-> kept[i].vote_account,
                             vote |-> kept[i].vote]]
    \o [i \in 1..Len(replayed_votes) |->
            [is_gossip |-> FALSE, vote_pubkey |-> replayed_votes[i].vote_pubkey,
             vote |-> replayed_votes[i].vote]]

\* the delivered votes from position i whose (voter, tip, hash) is not in `known`
\* and not earlier in the batch, each as (voter, slots), in order
RECURSIVE FirstTips(_, _, _, _)
FirstTips(delivered, i, known, root) ==
    IF i > Len(delivered) THEN <<>>
    ELSE IF TipProcessed(delivered[i], root) /\ TipKey(delivered[i]) \notin known
    THEN << <<delivered[i].vote_pubkey, delivered[i].vote.slots>> >>
         \o FirstTips(delivered, i + 1, known \cup {TipKey(delivered[i])}, root)
    ELSE FirstTips(delivered, i + 1, known, root)

\* every slot of the vote is of an epoch the bank of slot `root` has no stakes for
AllSlotsUnknown(vote, root) ==
    \A i \in 1..Len(vote.slots) : ~has_epoch_stakes(root, get_epoch(vote.slots[i]))

\* what the batch of a call holds: gossip transactions none of which is
\* authorized, replayed votes, only votes whose last slot is before the root,
\* only votes whose slots are all of an epoch unknown to the root bank
CallTags(eav, gossip_vote_txs, replayed_votes, root) ==
    (IF gossip_vote_txs # <<>> /\ \A i \in 1..Len(gossip_vote_txs) :
            NotAuthorized(eav, gossip_vote_txs[i])
     THEN {"unauthorized_gossip"} ELSE {})
    \cup (IF replayed_votes # <<>> THEN {"replay"} ELSE {})
    \cup (IF (\A i \in 1..Len(gossip_vote_txs) : Last(gossip_vote_txs[i].vote.slots) < root)
              /\ (\A j \in 1..Len(replayed_votes) : Last(replayed_votes[j].vote.slots) < root)
          THEN {"below_root"} ELSE {})
    \cup (IF (\A i \in 1..Len(gossip_vote_txs) : AllSlotsUnknown(gossip_vote_txs[i].vote, root))
              /\ (\A j \in 1..Len(replayed_votes) : AllSlotsUnknown(replayed_votes[j].vote, root))
          THEN {"unknown_epoch"} ELSE {})

(***************************************************************************)
(* The state machine                                                       *)
(***************************************************************************)
NoBuses ==
    [ gossip_verified_vote_hash |-> <<>>, duplicate_confirmed |-> <<>>,
      bank_notification |-> <<>>, notify_vote |-> <<>>, verified_vote |-> <<>> ]

(***************************************************************************)
(* The three threads: what gossip delivers, verify_votes, the packet       *)
(* forwarder                                                               *)
(***************************************************************************)
\* a signed transaction of gossip: the message of new_vote_transaction with
\* its signatures; verifies says whether ed25519 accepts them, is_vote whether
\* the instruction parses as a vote
SignedTransaction(vote_account, vote, authorized_voter, signatures, verifies, is_vote) ==
    [ account_keys |-> new_vote_transaction(vote_account, vote, authorized_voter).account_keys,
      num_required_signatures |-> 2,
      vote_account |-> vote_account,
      vote |-> vote,
      signatures |-> signatures,
      verifies |-> verifies,
      is_vote |-> is_vote ]

TxVote1 == SignedTransaction("v1", [slots |-> <<1>>, hash |-> "H0"], "v1", <<"s1">>, TRUE, TRUE)
TxVote2 == SignedTransaction("v2", [slots |-> <<1>>, hash |-> "H0"], "k2", <<"s2">>, TRUE, TRUE)
TxVote3 == SignedTransaction("v1", [slots |-> <<1, 2>>, hash |-> "H0"], "v1", <<"s3">>, TRUE, TRUE)
TxBadSignature ==
    SignedTransaction("v2", [slots |-> <<1, 2>>, hash |-> "H0"], "k2", <<"s4">>, FALSE, TRUE)
TxEmptySlots == SignedTransaction("v2", [slots |-> <<>>, hash |-> "H0"], "k2", <<"s5">>, TRUE, TRUE)
TxNotAVote == SignedTransaction("v1", [slots |-> <<1>>, hash |-> "H0"], "v1", <<"s6">>, TRUE, FALSE)
TxUnsigned == SignedTransaction("v1", [slots |-> <<1>>, hash |-> "H0"], "v1", <<>>, TRUE, TRUE)

\* ClusterInfo::get_votes: what one fetch of the cursor returns when votes arrived
FetchedVotes ==
    { <<TxVote2, TxEmptySlots, TxVote1, TxBadSignature, TxVote3>>,
      <<TxUnsigned, TxNotAVote>> }

\* what the replay stage sends on replay_votes_sender
ReplayVoteInputs == { [vote_pubkey |-> "v1", vote |-> [slots |-> <<1>>, hash |-> "H0"]] }

\* sigverify::ed25519_verify_cpu on the one-packet chunk of the transaction:
\* meta.discard is set when the packet holds no signature or one that fails
discard(vote_tx) == vote_tx.signatures = <<>> \/ ~vote_tx.verifies

\* as KeepsVote, without the test of the discard mark
KeepsVote_IgnoresDiscard(vote_tx) ==
    /\ vote_tx.is_vote
    /\ vote_tx.vote.slots # <<>>
    /\ vote_tx.signatures # <<>>

\* verify_votes, the closure of filter_map: the transaction parses as a vote
\* with slots, its packet is not discarded and it has a first signature
KeepsVote(vote_tx) ==
    /\ vote_tx.is_vote
    /\ vote_tx.vote.slots # <<>>
    /\ ~discard(vote_tx)
    /\ vote_tx.signatures # <<>>

\* VerifiedVoteMetadata of a kept transaction; the packet is named by the
\* transaction it was made from
VerifiedVoteMetadata(vote_tx) ==
    [ vote_account_key |-> parse_vote_transaction(vote_tx).vote_pubkey,
      vote |-> parse_vote_transaction(vote_tx).vote,
      packet |-> vote_tx,
      signature |-> vote_tx.signatures[1] ]

\* ClusterInfoVoteListener::verify_votes
verify_votes(votes) ==
    LET kept == SelectSeq(votes, KeepsVote) IN
        [ vote_txs |-> kept,
          vote_metadata |-> [i \in 1..Len(kept) |-> VerifiedVoteMetadata(kept[i])] ]

\* VerifiedVotePackets keeps per validator its latest votes, this many
MAX_VOTES_PER_VALIDATOR == 2

\* VerifiedVotePackets: one vote enters the bucket of its validator, which is
\* kept in slot order and holds the latest MAX_VOTES_PER_VALIDATOR
InsertVote(vvp, m) ==
    LET old == IF m.vote_account_key \in DOMAIN vvp THEN vvp[m.vote_account_key] ELSE <<>>
        slot == Last(m.vote.slots)
        entry == [slot |-> slot, packet |-> m.packet, signature |-> m.signature]
        merged == SelectSeq(old, LAMBDA e : e.slot < slot) \o <<entry>>
                  \o SelectSeq(old, LAMBDA e : e.slot > slot)
    IN  Put(vvp, m.vote_account_key,
            IF Len(merged) > MAX_VOTES_PER_VALIDATOR THEN Tail(merged) ELSE merged)

RECURSIVE InsertVotes(_, _, _)
InsertVotes(vvp, metas, i) ==
    IF i > Len(metas) THEN vvp ELSE InsertVotes(InsertVote(vvp, metas[i]), metas, i + 1)

RECURSIVE Flatten(_)
Flatten(seqs) == IF seqs = <<>> THEN <<>> ELSE Head(seqs) \o Flatten(Tail(seqs))

\* VerifiedVotePackets::receive_and_process_vote_packets: everything on the
\* channel is taken and, when the node would be leader, put into the buckets
receive_and_process_vote_packets(vvp, receiver, is_would_be_leader) ==
    IF is_would_be_leader THEN InsertVotes(vvp, Flatten(receiver), 1) ELSE vvp

\* ValidatorGossipVotesIterator: the packets of one validator not yet sent to
\* this bank
UnsentVotes(vvp, validator, previously_sent) ==
    SelectSeq(vvp[validator], LAMBDA e : e.signature \notin previously_sent)

\* Option<BankVoteSenderState>::None
NoSenderState == [is_some |-> FALSE]

\* BankVoteSenderState::new
NewBankVoteSenderState(bank_slot) ==
    [ is_some |-> TRUE,
      bank |-> bank_slot,
      previously_sent_to_bank_votes |-> {},
      num_votes_sent |-> 0,
      num_batches_sent |-> 0 ]

\* BankVoteSenderState::report_metrics
report_metrics(state) ==
    [ is_some |-> TRUE, slot |-> state.bank, num_votes_sent |-> state.num_votes_sent,
      num_batches_sent |-> state.num_batches_sent ]

\* as SenderStateFor, a fresh state on every call
SenderStateFor_AlwaysFresh(state_option, bank_slot) ==
    [ state |-> NewBankVoteSenderState(bank_slot),
      reported |-> IF state_option.is_some /\ state_option.bank # bank_slot
                   THEN <<report_metrics(state_option)>> ELSE <<>> ]

\* as SenderStateFor, the state of the first bank kept for every bank
SenderStateFor_NeverReplaced(state_option, bank_slot) ==
    [ state |-> IF state_option.is_some THEN state_option
                ELSE NewBankVoteSenderState(bank_slot),
      reported |-> <<>> ]

\* check_for_leader_bank_and_send_votes, its first statement: the state the
\* call works on, and what report_metrics emitted
SenderStateFor(state_option, bank_slot) ==
    IF state_option.is_some
    THEN IF state_option.bank # bank_slot
         THEN [ state |-> NewBankVoteSenderState(bank_slot),
                reported |-> <<report_metrics(state_option)>> ]
         ELSE [ state |-> state_option, reported |-> <<>> ]
    ELSE [ state |-> NewBankVoteSenderState(bank_slot), reported |-> <<>> ]

\* as MessagesOf, each vote sent on its own
MessagesOf_EachVote(single_validator_votes) ==
    [i \in 1..Len(single_validator_votes) |-> <<single_validator_votes[i]>>]

\* the messages verified_packets_sender.send makes of one validator's batch
MessagesOf(single_validator_votes) == <<single_validator_votes>>

\* check_for_leader_bank_and_send_votes, the loop over the iterator: the
\* validators are visited in the iterator's order; a failed send returns the
\* error at once
RECURSIVE SendBatches(_, _, _, _, _, _)
SendBatches(state, vvp, order, i, receiver_alive, sent) ==
    IF i > Len(order) THEN [state |-> state, sent |-> sent, result |-> "Ok"]
    ELSE IF order[i] \notin DOMAIN vvp
            \/ UnsentVotes(vvp, order[i], state.previously_sent_to_bank_votes) = <<>>
    THEN SendBatches(state, vvp, order, i + 1, receiver_alive, sent)
    ELSE LET single_validator_votes ==
                 UnsentVotes(vvp, order[i], state.previously_sent_to_bank_votes)
             counted == [state EXCEPT
                 !.previously_sent_to_bank_votes =
                     @ \cup {single_validator_votes[j].signature :
                                j \in 1..Len(single_validator_votes)},
                 !.num_votes_sent = @ + Len(single_validator_votes),
                 !.num_batches_sent = @ + 1]
         IN  IF receiver_alive
             THEN SendBatches(counted, vvp, order, i + 1, receiver_alive,
                              sent \o MessagesOf(single_validator_votes))
             ELSE [state |-> counted, sent |-> sent, result |-> "Err"]

\* ClusterInfoVoteListener::check_for_leader_bank_and_send_votes
check_for_leader_bank_and_send_votes(state_option, bank_slot, receiver_alive, vvp, order) ==
    LET for == SenderStateFor(state_option, bank_slot)
        r == SendBatches(for.state, vvp, order, 1, receiver_alive, <<>>)
    IN  [ state |-> r.state, sent |-> r.sent, result |-> r.result,
          reported |-> for.reported ]

\* the slots of the working banks of the PoH recorder
LeaderBankSlots == {1, 2}


\* listen_and_confirm_votes: let mut remaining_wait_time = 200, in units of MaxWait-th
ListenWait == MaxWait

Threads == {"recv_loop", "process_votes_loop", "bank_send_loop"}

\* the senders that are an Option: bank_notification_sender, and
\* cluster_confirmed_slot_sender, which process_votes_loop wraps in Some
OptionalSenders == {"bank_notification", "duplicate_confirmed"}

\* the VoteTracker is used by process_votes_loop alone
OneOwner == [thread |-> EmptyMap]

\* VoteTracker::new at the genesis bank, nothing sent or confirmed yet
NewAtGenesis ==
    /\ root_bank = 0
    /\ vote_tracker = NewVoteTracker(0)
    /\ last_progress_root = 0
    /\ buses = NoBuses
    /\ confirmed_slots = <<>>
    /\ calls = 0
    /\ seen = [tip_first |-> EmptyMap, tip_repeat |-> {}, slot_gossip |-> {}, slot_any |-> {},
               tip_order |-> <<>>]
    /\ last_call = {}
    /\ receivers_alive = BusNames
    /\ last_batch = << <<>>, <<>> >>

\* VoteTracker::new and the start of process_votes_loop, at the genesis bank,
\* with a bank_notification_sender
InitProcessVotes ==
    /\ NewAtGenesis
    /\ configured = OptionalSenders
    /\ shared = OneOwner

\* recv_loop holds no result of verify_votes
NoVotes == [vote_txs |-> <<>>, vote_metadata |-> <<>>]

\* ClusterInfoVoteListener::new: the channels are created and the threads spawned
InitThreads ==
    /\ exit = FALSE
    /\ pc = [t \in Threads |-> "loop"]
    /\ gossip_vote_txs_receiver = <<>>
    /\ verified_vote_label_packets_receiver = <<>>
    /\ replay_votes_receiver = <<>>
    /\ replay_votes_sender_alive = TRUE
    /\ verified_packets_receiver_alive = TRUE
    /\ remaining_wait_time = ListenWait
    /\ wakeups = 0
    /\ verified_vote_packets = EmptyMap
    /\ bank_vote_sender_state_option = NoSenderState
    /\ verified_packets = <<>>
    /\ sent_to_bank = [bank |-> 0, signatures |-> <<>>]
    /\ reported_metrics = [is_some |-> FALSE]
    /\ fetches = 0
    /\ recv_count = 0
    /\ recv_votes = NoVotes

\* no call of verify_votes yet, on the input it will get
NotVerified(votes) ==
    verified = [votes |-> votes, called |-> FALSE, vote_txs |-> <<>>, vote_metadata |-> <<>>]

\* the PoH recorder holds no leader bank
NoLeaderBank ==
    /\ working_bank = 0
    /\ would_be_leader = FALSE

\* the threads that call QosService::compute_transaction_costs
QosThreads == 1..MaxThreads

\* the thread QosService::new spawns for reporting_loop
ReportingThread == 0

\* no function of VoteTracker is called on its own
NoCall == call = [fn |-> "none", args |-> <<>>, returned |-> FALSE, result |-> <<>>]

\* QosServiceMetrics::default and QosService::new, nothing computed yet: `txs`
\* gives the number of transactions each thread will pass
NewQosService(txs) ==
    /\ compute_cost_time = 0
    /\ compute_cost_count = 0
    /\ last_report = 0
    /\ running_flag = TRUE
    /\ qos_pc = [t \in QosThreads \cup {ReportingThread} |->
                    IF t \in QosThreads THEN "spawned" ELSE "loop"]
    /\ txs_costs = txs
    /\ reported_count = 0

\* a validator whose QosService computes nothing
NoQosService == NewQosService([t \in QosThreads |-> 0])

Init ==
    /\ InitProcessVotes /\ InitThreads /\ NoLeaderBank /\ NotVerified(<<>>)
    /\ NoCall /\ NoQosService

\* process_votes_loop, top of the loop: the root bank of bank_forks is read and,
\* when last_process_root elapsed, the VoteTracker progresses to it
ReadRootBank(progress, roots) ==
    /\ \E r \in roots :
        /\ root_bank' = r
        /\ IF progress
           THEN /\ vote_tracker' = progress_with_new_root_bank(vote_tracker, r)
                /\ last_progress_root' = r
           ELSE UNCHANGED <<vote_tracker, last_progress_root>>
    /\ last_call' = {}
    /\ UNCHANGED <<buses, confirmed_slots, calls, seen>>

\* process_votes_loop, top of the loop with last_process_root elapsed: the root
\* bank of bank_forks is read and the VoteTracker progresses to it
ProcessNewRoot ==
    /\ ReadRootBank(TRUE, root_bank..MaxRoot)
    /\ UNCHANGED tvars

\* process_votes_loop, top of the loop within DEFAULT_MS_PER_SLOT of the last
\* progress: the root bank of bank_forks is read
KeepRoot ==
    /\ ReadRootBank(FALSE, root_bank..MaxRoot)
    /\ UNCHANGED tvars

\* OptimisticConfirmationVerifier::add_new_optimistic_confirmed_slots: the
\* slots are appended to the journal
add_new_optimistic_confirmed_slots(journal, new_optimistic_slots) ==
    journal \o new_optimistic_slots

\* the vote accounts of a batch
VotersOf(batch) ==
    {batch[1][i].vote_account : i \in 1..Len(batch[1])}
    \cup {batch[2][i].vote_pubkey : i \in 1..Len(batch[2])}

\* the orders that differ on the keys of the batch
OrdersOf(batch) ==
    IF Cardinality(VotersOf(batch)) > 1 THEN Orders ELSE {<<"v1", "v2">>}

\* filter_and_confirm_with_new_votes on the drained batch, and the Ok arm of
\* process_votes_loop
Confirm(batch) ==
    /\ \E order \in OrdersOf(batch) :
       \E ps \in {filter_and_confirm_with_new_votes(vote_tracker, batch[1], batch[2],
                      root_bank, buses, LoopSenders, order)} :
       \E chain \in {ChainedVotes(vote_tracker.epoch_authorized_voters, batch[1], batch[2])} :
            /\ vote_tracker' = [vote_tracker EXCEPT !.slot_vote_trackers = ps.slot_vote_trackers]
            /\ buses' = [ gossip_verified_vote_hash |-> ps.gossip_verified_vote_hash,
                          duplicate_confirmed |-> ps.duplicate_confirmed,
                          bank_notification |-> ps.bank_notification,
                          notify_vote |-> ps.notify_vote,
                          verified_vote |-> ps.verified_vote ]
            /\ confirmed_slots' = add_new_optimistic_confirmed_slots(
                                    confirmed_slots, ps.new_optimistic_confirmed_slots)
            /\ seen' = [SeenAfter(seen, chain, root_bank) EXCEPT !.tip_order =
                            @ \o FirstTips(DeliveredVotes(vote_tracker.epoch_authorized_voters,
                                               batch[1], batch[2]),
                                           1, DOMAIN seen.tip_first, root_bank)]
            /\ last_call' = CallTags(vote_tracker.epoch_authorized_voters, batch[1],
                                     batch[2], root_bank)
    /\ calls' = calls + 1
    /\ UNCHANGED <<root_bank, last_progress_root>>

\* listen_and_confirm_votes with votes on a channel, and the Ok arm of the loop
ListenAndConfirmVotes ==
    /\ calls < MaxCalls
    /\ \E batch \in Batches : Confirm(batch)
    /\ UNCHANGED tvars

Next ==
    \/ ProcessNewRoot
    \/ KeepRoot
    \/ ListenAndConfirmVotes

Spec == Init /\ [][Next]_vars

(***************************************************************************)
(* The three threads of ClusterInfoVoteListener::new                       *)
(***************************************************************************)
Stop(thread) == pc' = [pc EXCEPT ![thread] = "done"]

\* as exit_load, the flag never seen set
exit_load_NeverSeen(flag) == FALSE

\* exit.load(Ordering::Relaxed) at the top of a loop
exit_load(flag) == flag

\* one iteration of recv_loop; a thread that returned has dropped its receivers
NotOfRecvLoop ==
    <<exit, replay_votes_receiver, replay_votes_sender_alive,
      verified_packets_receiver_alive, remaining_wait_time, wakeups, verified_vote_packets,
      bank_vote_sender_state_option, verified_packets, sent_to_bank, reported_metrics,
      verified, fvars, working_bank, would_be_leader>>

\* recv_loop from the top of the loop to the return of verify_votes; without
\* votes the iteration ends in the sleep
RecvLoopTop ==
    /\ pc["recv_loop"] = "loop"
    /\ IF exit_load(exit)
       THEN /\ Stop("recv_loop")
            /\ UNCHANGED <<fetches, recv_count, recv_votes>>
       ELSE \E votes \in {<<>>} \cup (IF fetches < MaxFetch THEN FetchedVotes ELSE {}) :
            /\ recv_count' = recv_count + Len(votes)
            /\ IF votes = <<>>
               THEN UNCHANGED <<pc, fetches, recv_votes>>
               ELSE /\ fetches' = fetches + 1
                    /\ recv_votes' = verify_votes(votes)
                    /\ pc' = [pc EXCEPT !["recv_loop"] = "send"]
    /\ UNCHANGED <<gossip_vote_txs_receiver, verified_vote_label_packets_receiver>>
    /\ UNCHANGED pvars
    /\ UNCHANGED NotOfRecvLoop

\* as SendsInOrder, the packets sent before the transactions: <<transactions
\* sent, packets sent, Ok>>
SendsInOrder_PacketsFirst(transactions_receiver_alive, packets_receiver_alive) ==
    IF ~packets_receiver_alive THEN <<FALSE, FALSE, FALSE>>
    ELSE IF ~transactions_receiver_alive THEN <<FALSE, TRUE, FALSE>>
    ELSE <<TRUE, TRUE, TRUE>>

\* recv_loop, the two sends with `?`: <<transactions sent, packets sent, Ok>>
SendsInOrder(transactions_receiver_alive, packets_receiver_alive) ==
    IF ~transactions_receiver_alive THEN <<FALSE, FALSE, FALSE>>
    ELSE IF ~packets_receiver_alive THEN <<TRUE, FALSE, FALSE>>
    ELSE <<TRUE, TRUE, TRUE>>

\* recv_loop, the two sends and the sleep: a send to a channel whose receiver
\* was dropped with its thread fails and recv_loop returns the error
RecvLoopSend ==
    /\ pc["recv_loop"] = "send"
    /\ \E r \in {SendsInOrder(pc["process_votes_loop"] # "done",
                              pc["bank_send_loop"] # "done")} :
        /\ gossip_vote_txs_receiver' =
              IF r[1] THEN Append(gossip_vote_txs_receiver, recv_votes.vote_txs)
              ELSE gossip_vote_txs_receiver
        /\ verified_vote_label_packets_receiver' =
              IF r[2] THEN Append(verified_vote_label_packets_receiver,
                                  recv_votes.vote_metadata)
              ELSE verified_vote_label_packets_receiver
        /\ pc' = [pc EXCEPT !["recv_loop"] = IF r[3] THEN "loop" ELSE "done"]
    /\ recv_votes' = NoVotes
    /\ UNCHANGED <<fetches, recv_count>>
    /\ UNCHANGED pvars
    /\ UNCHANGED NotOfRecvLoop

RecvLoop == RecvLoopTop \/ RecvLoopSend

\* what process_votes_loop leaves alone
NotOfProcessVotes ==
    <<exit, verified_vote_label_packets_receiver, replay_votes_sender_alive,
      verified_packets_receiver_alive, verified_vote_packets,
      bank_vote_sender_state_option, verified_packets, sent_to_bank,
      reported_metrics, fetches, recv_count, recv_votes, verified, fvars, working_bank,
      would_be_leader>>

\* process_votes_loop from the top of the loop to the call of
\* listen_and_confirm_votes
ProcessVotesLoopTop ==
    /\ pc["process_votes_loop"] = "loop"
    /\ IF exit_load(exit)
       THEN /\ Stop("process_votes_loop")
            /\ UNCHANGED pvars
            /\ UNCHANGED <<remaining_wait_time, wakeups>>
       ELSE /\ \E progress \in BOOLEAN : ReadRootBank(progress, {root_bank})
            /\ pc' = [pc EXCEPT !["process_votes_loop"] = "listen"]
            /\ remaining_wait_time' = ListenWait
            /\ wakeups' = 0
    /\ UNCHANGED <<gossip_vote_txs_receiver, replay_votes_receiver>>
    /\ UNCHANGED NotOfProcessVotes

\* Select::ready_timeout is ready when a channel holds something or is disconnected
Disconnected == pc["recv_loop"] = "done" \/ ~replay_votes_sender_alive
SelReady ==
    \/ gossip_vote_txs_receiver # <<>>
    \/ replay_votes_receiver # <<>>
    \/ Disconnected

\* listen_and_confirm_votes: ready_timeout times out, the error leaves through
\* `?` and the ReadyTimeout arm of process_votes_loop goes on with the loop
ReadyTimeout ==
    /\ pc["process_votes_loop"] = "listen"
    /\ ~SelReady
    /\ pc' = [pc EXCEPT !["process_votes_loop"] = "loop"]
    /\ UNCHANGED pvars
    /\ UNCHANGED <<gossip_vote_txs_receiver, replay_votes_receiver, remaining_wait_time, wakeups>>
    /\ UNCHANGED NotOfProcessVotes

\* as DrainedBatch, one message taken from the gossip channel and none from replay
DrainedBatch_OneMessage(gossip_receiver, replay_receiver) ==
    IF gossip_receiver # <<>> THEN <<Head(gossip_receiver), <<>> >>
    ELSE <<<<>>, replay_receiver>>

\* gossip_vote_txs_receiver.try_iter().flatten().collect() and
\* replay_votes_receiver.try_iter().collect()
DrainedBatch(gossip_receiver, replay_receiver) ==
    <<Flatten(gossip_receiver), replay_receiver>>

\* as Debit, without the minimum of 1
Debit_NoMinimum(remaining, elapsed) ==
    IF elapsed > remaining THEN 0 ELSE remaining - elapsed

\* remaining_wait_time.saturating_sub(max(elapsed, 1))
Debit(remaining, elapsed) ==
    LET debit == IF elapsed > 1 THEN elapsed ELSE 1 IN
        IF debit > remaining THEN 0 ELSE remaining - debit

\* listen_and_confirm_votes: ready_timeout returns Ok (the selector is ready
\* or woke up spuriously) and both channels are drained; votes are confirmed
\* and returned, without votes the wait is debited and, when none is left,
\* Ok(vec![]) is returned
ReadyDrain ==
    /\ pc["process_votes_loop"] = "listen"
    /\ gossip_vote_txs_receiver' = <<>>
    /\ replay_votes_receiver' = <<>>
    /\ IF DrainedBatch(gossip_vote_txs_receiver, replay_votes_receiver) # << <<>>, <<>> >>
       THEN /\ Confirm(DrainedBatch(gossip_vote_txs_receiver, replay_votes_receiver))
            /\ pc' = [pc EXCEPT !["process_votes_loop"] = "loop"]
            /\ UNCHANGED <<remaining_wait_time, wakeups>>
       ELSE /\ \E elapsed \in 0..(remaining_wait_time + 1) :
                /\ remaining_wait_time' = Debit(remaining_wait_time, elapsed)
                /\ pc' = [pc EXCEPT !["process_votes_loop"] =
                              IF Debit(remaining_wait_time, elapsed) = 0
                              THEN "loop" ELSE "listen"]
            /\ wakeups' = wakeups + 1
            /\ UNCHANGED pvars
    /\ UNCHANGED NotOfProcessVotes

\* one iteration of bank_send_loop
BankSendLoop ==
    /\ pc["bank_send_loop"] = "loop"
    /\ IF exit_load(exit)
       THEN /\ Stop("bank_send_loop")
            /\ UNCHANGED <<verified_vote_label_packets_receiver, verified_vote_packets,
                           bank_vote_sender_state_option, verified_packets, sent_to_bank,
                           reported_metrics>>
       ELSE \E vvp \in {receive_and_process_vote_packets(verified_vote_packets,
                            verified_vote_label_packets_receiver, would_be_leader)} :
            \E elapsed \in BOOLEAN :
            \E order \in Orders :
                /\ verified_vote_label_packets_receiver' = <<>>
                /\ verified_vote_packets' = vvp
                /\ IF ~elapsed \/ working_bank = 0
                   THEN /\ verified_packets' = <<>>
                        /\ UNCHANGED <<pc, bank_vote_sender_state_option, sent_to_bank,
                                       reported_metrics>>
                   ELSE \E r \in {check_for_leader_bank_and_send_votes(
                                      bank_vote_sender_state_option, working_bank,
                                      verified_packets_receiver_alive, vvp, order)} :
                        /\ bank_vote_sender_state_option' = r.state
                        /\ verified_packets' = r.sent
                        /\ sent_to_bank' =
                               [ bank |-> working_bank,
                                 signatures |->
                                     (IF sent_to_bank.bank = working_bank
                                      THEN sent_to_bank.signatures ELSE <<>>)
                                     \o [i \in 1..Len(Flatten(r.sent)) |->
                                            Flatten(r.sent)[i].signature] ]
                        /\ reported_metrics' =
                               IF r.reported = <<>> THEN reported_metrics ELSE r.reported[1]
                        /\ IF r.result = "Ok" THEN UNCHANGED pc ELSE Stop("bank_send_loop")
    /\ UNCHANGED pvars
    /\ UNCHANGED <<exit, gossip_vote_txs_receiver, replay_votes_receiver,
                   replay_votes_sender_alive, verified_packets_receiver_alive,
                   remaining_wait_time, wakeups, fetches, recv_count, recv_votes, verified, fvars,
                   working_bank,
                   would_be_leader>>

\* the rest of the validator
NotOfEnvironment ==
    <<pc, gossip_vote_txs_receiver, verified_vote_label_packets_receiver,
      remaining_wait_time, wakeups, verified_vote_packets, bank_vote_sender_state_option,
      verified_packets, sent_to_bank, reported_metrics, recv_count, recv_votes, verified,
      fvars, working_bank, would_be_leader>>

\* the replay stage sends a vote of a replayed block
SendReplayVote ==
    /\ replay_votes_sender_alive
    /\ pc["process_votes_loop"] # "done"
    /\ fetches < MaxFetch
    /\ \E vote \in ReplayVoteInputs :
        replay_votes_receiver' = Append(replay_votes_receiver, vote)
    /\ fetches' = fetches + 1
    /\ UNCHANGED pvars
    /\ UNCHANGED NotOfEnvironment
    /\ UNCHANGED <<exit, replay_votes_sender_alive, verified_packets_receiver_alive>>

\* the replay stage ends and drops its sender
DropReplaySender ==
    /\ replay_votes_sender_alive
    /\ replay_votes_sender_alive' = FALSE
    /\ UNCHANGED pvars
    /\ UNCHANGED NotOfEnvironment
    /\ UNCHANGED <<exit, replay_votes_receiver, verified_packets_receiver_alive, fetches>>

\* the banking stage ends and drops its receiver
DropVerifiedPacketsReceiver ==
    /\ verified_packets_receiver_alive
    /\ verified_packets_receiver_alive' = FALSE
    /\ UNCHANGED pvars
    /\ UNCHANGED NotOfEnvironment
    /\ UNCHANGED <<exit, replay_votes_receiver, replay_votes_sender_alive, fetches>>

\* the validator sets the exit flag
SetExit ==
    /\ ~exit
    /\ exit' = TRUE
    /\ UNCHANGED pvars
    /\ UNCHANGED NotOfEnvironment
    /\ UNCHANGED <<replay_votes_receiver, replay_votes_sender_alive,
                   verified_packets_receiver_alive, fetches>>

NextThreads ==
    \/ RecvLoop
    \/ ProcessVotesLoopTop
    \/ ReadyTimeout
    \/ ReadyDrain
    \/ BankSendLoop
    \/ SendReplayVote
    \/ DropReplaySender
    \/ DropVerifiedPacketsReceiver
    \/ SetExit

\* the listener starts while the node is leader of slot 1, or far from leadership
InitLeaderOrNot ==
    /\ InitProcessVotes
    /\ InitThreads
    /\ NotVerified(<<>>)
    /\ NoCall /\ NoQosService
    /\ \/ NoLeaderBank
       \/ working_bank = 1 /\ would_be_leader = TRUE

SpecThreads == InitLeaderOrNot /\ [][NextThreads]_vars

\* process_votes_loop takes a step: of NextThreads only ProcessVotesLoopTop,
\* ReadyTimeout and ReadyDrain write the position of that thread and its wait,
\* and each of them changes one of the two; one of them is enabled whenever the
\* thread has not returned
ProcessVotesStep ==
    /\ pc["process_votes_loop"] # "done"
    /\ \E at \in {"loop", "listen", "done"} :
        pc' = [pc EXCEPT !["process_votes_loop"] = at]
    /\ \E wait \in 0..MaxWait : remaining_wait_time' = wait

\* the scheduler runs every thread that can take a step; for recv_loop and
\* bank_send_loop this is asked only once the exit flag is set, which is never
\* cleared
FairThreads ==
    /\ SpecThreads
    /\ WF_vars(exit /\ RecvLoop)
    /\ WF_<<pc, remaining_wait_time>>(ProcessVotesStep)
    /\ WF_vars(exit /\ BankSendLoop)

(***************************************************************************)
(* The packet forwarder beside the listener thread and the PoH recorder    *)
(***************************************************************************)
\* the PoH recorder sets, replaces or clears its working bank, and the leader
\* schedule brings the node near leadership or away from it
PohRecorderTick ==
    /\ \E bank \in {0} \cup LeaderBankSlots : working_bank' = bank
    /\ \E leader \in BOOLEAN : would_be_leader' = leader
    /\ UNCHANGED pvars
    /\ UNCHANGED <<exit, pc, gossip_vote_txs_receiver, verified_vote_label_packets_receiver,
                   replay_votes_receiver, replay_votes_sender_alive,
                   verified_packets_receiver_alive, remaining_wait_time, wakeups,
                   verified_vote_packets, bank_vote_sender_state_option, verified_packets,
                   sent_to_bank, reported_metrics, fetches, recv_count, recv_votes, verified,
                   fvars>>

NextForwarder ==
    \/ RecvLoop
    \/ BankSendLoop
    \/ PohRecorderTick
    \/ DropVerifiedPacketsReceiver

SpecForwarder == Init /\ [][NextForwarder]_vars

(***************************************************************************)
(* verify_votes on the vectors of gossip transactions                      *)
(***************************************************************************)
Transactions ==
    {TxVote1, TxVote2, TxVote3, TxBadSignature, TxEmptySlots, TxNotAVote, TxUnsigned}

VerifyInputs == UNION {[1..n -> Transactions] : n \in 0..MaxLen}

InitVerify ==
    /\ InitProcessVotes
    /\ InitThreads
    /\ NoLeaderBank
    /\ NoCall /\ NoQosService
    /\ \E votes \in VerifyInputs : NotVerified(votes)

CallVerifyVotes ==
    /\ ~verified.called
    /\ \E r \in {verify_votes(verified.votes)} :
        verified' = [votes |-> verified.votes, called |-> TRUE, vote_txs |-> r.vote_txs,
                     vote_metadata |-> r.vote_metadata]
    /\ UNCHANGED pvars
    /\ UNCHANGED <<exit, pc, gossip_vote_txs_receiver, verified_vote_label_packets_receiver,
                   replay_votes_receiver, replay_votes_sender_alive,
                   verified_packets_receiver_alive, remaining_wait_time, wakeups,
                   verified_vote_packets, bank_vote_sender_state_option, verified_packets,
                   sent_to_bank, reported_metrics, fetches, recv_count, recv_votes,
                   working_bank, would_be_leader,
                   fvars>>

SpecVerify == InitVerify /\ [][CallVerifyVotes]_vars

(***************************************************************************)
(* The functions of VoteTracker, each called once on its own.              *)
(***************************************************************************)
\* the keys a message holds
MessageKeys == {NodeKey, "v1", "k1"}

\* vote transactions of v1: every list of account keys with every number of
\* required signatures, the transactions of new_vote_transaction among them
VoteMessages ==
    { [ account_keys |-> keys,
        num_required_signatures |-> n,
        vote_account |-> "v1",
        vote |-> [slots |-> <<1>>, hash |-> "H0"] ] :
      keys \in UNION {[1..len -> MessageKeys] : len \in 1..MaxKeys}, n \in 0..MaxKeys }

\* the VoteTracker of a validator started at root r0 whose root then moved to r1
TrackerAtRoots(r0, r1) == progress_with_new_root_bank(NewVoteTracker(r0), r1)

VoteTrackers ==
    { TrackerAtRoots(r[1], r[2]) : r \in {r \in (0..MaxSlot) \X (0..MaxSlot) : r[1] <= r[2]} }

\* the calls: function and arguments
VoteTrackerCalls ==
    { [fn |-> "vote_contains_authorized_voter", args |-> <<vote_tx, authorized_voter>>] :
        vote_tx \in VoteMessages, authorized_voter \in MessageKeys }
    \cup
    { [fn |-> "get_authorized_voter", args |-> <<vt, pubkey, slot>>] :
        vt \in VoteTrackers, pubkey \in VoteAccountKeys \cup {"k1"},
        slot \in 0..(MaxSlot + 2 * SLOTS_PER_EPOCH) }
    \cup
    { [fn |-> "progress_leader_schedule_epoch", args |-> <<vt, root_slot>>] :
        vt \in VoteTrackers,
        root_slot \in 0..MaxSlot }

InitVoteTracker ==
    /\ InitProcessVotes /\ InitThreads /\ NoLeaderBank /\ NotVerified(<<>>)
    /\ NoQosService
    /\ \E c \in VoteTrackerCalls :
        /\ c.fn = "progress_leader_schedule_epoch" => get_epoch(c.args[2]) >= c.args[1].current_epoch
        /\ call = [fn |-> c.fn, args |-> c.args, returned |-> FALSE, result |-> <<>>]

Returns(fn, result) ==
    /\ call.fn = fn
    /\ ~call.returned
    /\ call' = [call EXCEPT !.returned = TRUE, !.result = result]
    /\ UNCHANGED <<pvars, lvars, qvars, receivers_alive, last_batch, configured, shared>>

CallVoteContainsAuthorizedVoter ==
    Returns("vote_contains_authorized_voter",
            vote_contains_authorized_voter(call.args[1], call.args[2]))

CallGetAuthorizedVoter ==
    Returns("get_authorized_voter",
            get_authorized_voter(call.args[1].epoch_authorized_voters, call.args[2],
                                 call.args[3]))

CallProgressLeaderScheduleEpoch ==
    Returns("progress_leader_schedule_epoch",
            progress_leader_schedule_epoch(call.args[1], call.args[2]))

NextVoteTracker ==
    \/ CallVoteContainsAuthorizedVoter
    \/ CallGetAuthorizedVoter
    \/ CallProgressLeaderScheduleEpoch

SpecVoteTracker == InitVoteTracker /\ [][NextVoteTracker]_vars

(***************************************************************************)
(* process_votes_loop beside the receivers of its buses, which may be      *)
(* dropped                                                                 *)
(***************************************************************************)
\* the thread that holds the receiver of a bus ends and drops it
DropReceiver ==
    /\ \E bus \in receivers_alive : receivers_alive' = receivers_alive \ {bus}
    /\ UNCHANGED <<pvars, lvars, call, qvars, last_batch, configured, shared>>

\* listen_and_confirm_votes with votes on a channel, and the Ok arm of the loop
ListenAndConfirmBatch ==
    /\ calls < MaxBatches
    /\ \E batch \in Batches :
        /\ Confirm(batch)
        /\ last_batch' = batch
    /\ UNCHANGED <<lvars, call, qvars, receivers_alive, configured, shared>>

NextSends ==
    \/ ListenAndConfirmBatch
    \/ DropReceiver

SpecSends == Init /\ [][NextSends]_vars

(***************************************************************************)
(* listen_and_confirm_votes called with and without the optional senders   *)
(***************************************************************************)
\* the callers of listen_and_confirm_votes: process_votes_loop with and without
\* a bank_notification_sender, and get_and_process_votes_for_tests, which
\* passes &None for both
SenderConfigurations == { OptionalSenders, {"duplicate_confirmed"}, {} }

InitOptional ==
    /\ NewAtGenesis
    /\ configured \in SenderConfigurations
    /\ shared = OneOwner
    /\ InitThreads /\ NoLeaderBank /\ NotVerified(<<>>)
    /\ NoCall /\ NoQosService

\* batches of three votes that bring two (slot, hash) over VOTE_THRESHOLD_SIZE
CrossingBatches ==
    LET one == [slots |-> <<1>>, hash |-> "H0"]
        two == [slots |-> <<1, 2>>, hash |-> "H0"]
    IN  { << <<new_vote_transaction("v1", two, "k1")>>,
             <<[vote_pubkey |-> "v1", vote |-> one], [vote_pubkey |-> "v2", vote |-> one]>> >>,
          << <<new_vote_transaction("v1", one, "v1"), new_vote_transaction("v2", one, "k2")>>,
             <<[vote_pubkey |-> "v1", vote |-> two]>> >> }

\* the batches a call drains: the same vote of every validator, the vote of
\* one validator for slot 1, or three votes
OptionalBatches ==
    UNION { SameVoteOfAll(c) : c \in VoteContents }
    \cup { << <<>>, <<[vote_pubkey |-> v, vote |-> [slots |-> <<1>>, hash |-> h]]>> >> :
              <<v, h>> \in VoteAccountKeys \X Hashes }
    \cup { << <<new_vote_transaction("v2", [slots |-> <<1>>, hash |-> h], "k2")>>, <<>> >> :
              h \in Hashes }
    \cup CrossingBatches

\* listen_and_confirm_votes with votes on a channel, and the Ok arm of the loop
ListenAndConfirmCall ==
    /\ calls < MaxCalls
    /\ \E batch \in OptionalBatches :
        /\ Confirm(batch)
        /\ last_batch' = batch
    /\ UNCHANGED <<lvars, call, qvars, receivers_alive, configured, shared>>

NextOptional == ListenAndConfirmCall

SpecOptional == InitOptional /\ [][NextOptional]_vars

(***************************************************************************)
(* process_votes_loop with votes that are delivered again, below and above *)
(* the roots it moves to                                                   *)
(***************************************************************************)
NextRepeats ==
    \/ ProcessNewRoot
    \/ ListenAndConfirmCall

SpecRepeats == Init /\ [][NextRepeats]_vars

(***************************************************************************)
(* Threads that share one VoteTracker through its locks: the RwLock of     *)
(* slot_vote_trackers, of each SlotVoteTracker, of current_epoch and of    *)
(* epoch_authorized_voters. A step takes a lock and does what the code     *)
(* does under it, or drops the guard. What a call sends on its buses lies  *)
(* between the locked regions and touches no field of the VoteTracker.     *)
(***************************************************************************)
SLOT_VOTE_TRACKERS == <<"slot_vote_trackers", 0>>
CURRENT_EPOCH == <<"current_epoch", 0>>
EPOCH_AUTHORIZED_VOTERS == <<"epoch_authorized_voters", 0>>
SlotTrackerLock(arc) == <<"slot_tracker", arc>>

Callers == {"first", "second"}

\* a call of filter_and_confirm_with_new_votes with one vote, at the root bank
\* of slot 0
VoteCalls ==
    { [fn |-> "filter_and_confirm_with_new_votes", vote_pubkey |-> v,
       vote |-> [slots |-> slots, hash |-> "H0"], is_gossip |-> is_gossip] :
        v \in VoteAccountKeys, slots \in { <<1>>, <<1, 2>> }, is_gossip \in BOOLEAN }

\* the thread of process_votes_loop: a call, then purge_stale_state of
\* progress_with_new_root_bank at a root of the next epoch or none
ProcessorPrograms ==
    { <<c>> : c \in {c \in VoteCalls : c.vote_pubkey = "v1"} }
    \cup { <<c, [fn |-> "purge_stale_state", root |-> 2]>> :
                c \in {c \in VoteCalls : c.vote_pubkey = "v1"} }

\* another thread that holds the Arc<VoteTracker>: a second caller of
\* filter_and_confirm_with_new_votes, or a reader of the tracker of a slot
OtherPrograms ==
    { <<c>> : c \in VoteCalls }
    \cup { <<[fn |-> "get_slot_vote_tracker", slot |-> s]>> : s \in {1, 2} }

\* where a thread starts the first of the calls it has left
Begin(ops) ==
    IF ops = <<>> THEN "done"
    ELSE CASE Head(ops).fn = "filter_and_confirm_with_new_votes" ->
                  IF Head(ops).is_gossip THEN "chain_voters" ELSE "get"
           [] Head(ops).fn = "purge_stale_state" -> "purge_slots"
           [] Head(ops).fn = "get_slot_vote_tracker" -> "read_get"

\* the slot the first call of get_or_insert_slot_tracker is for
FirstSlot(ops) ==
    IF ops # <<>> /\ Head(ops).fn = "filter_and_confirm_with_new_votes"
    THEN Last(Head(ops).vote.slots) ELSE 0

\* a thread before its first call
NewThread(ops) ==
    [ ops |-> ops, pc |-> Begin(ops), at |-> "track", slot |-> FirstSlot(ops),
      found |-> 0, slot_tracker |-> 0, is_new |-> FALSE, todo |-> <<>>,
      kept |-> FALSE, epoch |-> 0, expect |-> 0 ]

\* the thread after the call it was in has returned
Finish(th) ==
    [th EXCEPT !.ops = Tail(@), !.pc = Begin(Tail(th.ops)), !.at = "track",
               !.slot = FirstSlot(Tail(th.ops)), !.todo = <<>>]

\* VoteTracker::new at the genesis bank behind its locks; slot_vote_trackers
\* maps a slot to its Arc, arcs holds the SlotVoteTracker of each Arc made so far;
\* returned, recorded and purged are the history of the run: the Arc first
\* returned for each slot, the (slot, hash, voter) recorded, the slots purged
NewShared(programs) ==
    [ slot_vote_trackers |-> EmptyMap,
      arcs |-> <<>>,
      current_epoch |-> NewVoteTracker(0).current_epoch,
      epochs |-> DOMAIN NewVoteTracker(0).epoch_authorized_voters,
      held |-> {},
      thread |-> [t \in Callers |-> NewThread(programs[t])],
      programs |-> programs,
      returned |-> EmptyMap,
      recorded |-> {},
      purged |-> {} ]

\* RwLock::read and RwLock::write return when no other guard excludes them
CanRead(lock) == \A h \in shared.held : h[2] = lock => h[3] = "r"
CanWrite(lock) == \A h \in shared.held : h[2] # lock

\* as DropsGuard, the guard kept
DropsGuard_Kept(held, t) == held

\* the guard a thread holds goes out of scope
DropsGuard(held, t) == {h \in held : h[1] # t}

\* the lock a thread is about to take and how, by its position
Wants(th) ==
    CASE th.pc \in {"get", "read_get"} -> <<SLOT_VOTE_TRACKERS, "r">>
      [] th.pc \in {"insert", "purge_slots"} -> <<SLOT_VOTE_TRACKERS, "w">>
      [] th.pc \in {"track_write", "fold_write"} -> <<SlotTrackerLock(th.slot_tracker), "w">>
      [] th.pc \in {"fold_read", "read_slot"} -> <<SlotTrackerLock(th.slot_tracker), "r">>
      [] th.pc = "chain_voters" -> <<EPOCH_AUTHORIZED_VOTERS, "r">>
      [] th.pc = "purge_voters" -> <<EPOCH_AUTHORIZED_VOTERS, "w">>
      [] th.pc = "purge_epoch" -> <<CURRENT_EPOCH, "r">>
      [] th.pc = "purge_current" -> <<CURRENT_EPOCH, "w">>
      [] OTHER -> <<>>

\* the thread takes the lock it is about to take
Locks(t) ==
    LET want == Wants(shared.thread[t]) IN
    /\ want # <<>>
    /\ IF want[2] = "r" THEN CanRead(want[1]) ELSE CanWrite(want[1])

Locked(t) == shared.held \cup {<<t, Wants(shared.thread[t])[1], Wants(shared.thread[t])[2]>>}

\* the Arc of the map for a slot, 0 for None
ArcOf(slot_vote_trackers, slot) ==
    IF slot \in DOMAIN slot_vote_trackers THEN slot_vote_trackers[slot] ELSE 0

\* get_or_insert_slot_tracker returns arc for the slot
Returned(sh, th, arc) ==
    [sh EXCEPT !.returned = IF th.slot \in DOMAIN @ \/ th.slot \in sh.purged THEN @
                            ELSE Put(@, th.slot, arc)]

\* where a thread goes on with the Arc of get_or_insert_slot_tracker
AfterGetOrInsert(th) == IF th.at = "track" THEN "track_write" ELSE "fold_read"

\* the filter of gossip votes: get_authorized_voter reads epoch_authorized_voters
\* for the epoch of the last slot of the vote
ChainVoters(t) ==
    LET th == shared.thread[t]
        op == Head(th.ops)
        epoch == get_epoch(Last(op.vote.slots))
    IN  \/ /\ th.pc = "chain_voters"
           /\ Locks(t)
           /\ shared' = [shared EXCEPT
                  !.held = Locked(t),
                  !.thread[t] = [th EXCEPT
                      !.kept = /\ epoch \in shared.epochs
                               /\ op.vote_pubkey \in DOMAIN bank_epoch_authorized_voters(epoch),
                      !.pc = "chain_voters_read"]]
        \/ /\ th.pc = "chain_voters_read"
           /\ shared' = [shared EXCEPT
                  !.held = DropsGuard(@, t),
                  !.thread[t] = IF th.kept THEN [th EXCEPT !.pc = "get"] ELSE Finish(th)]

\* VoteTracker::get_or_insert_slot_tracker: the map is read under its read lock
\* and, when it held no Arc for the slot, a new Arc is inserted under its write
\* lock
GetOrInsertSlotTracker(t) ==
    LET th == shared.thread[t] IN
        \/ /\ th.pc = "get"
           /\ Locks(t)
           /\ shared' = [shared EXCEPT
                  !.held = Locked(t),
                  !.thread[t] = [th EXCEPT
                      !.found = ArcOf(shared.slot_vote_trackers, th.slot),
                      !.expect = ArcOf(shared.returned, th.slot),
                      !.pc = "got"]]
        \/ /\ th.pc = "got"
           /\ shared' =
                 IF th.found = 0
                 THEN [shared EXCEPT
                          !.held = DropsGuard(@, t),
                          !.thread[t] = [th EXCEPT !.pc = "insert"]]
                 ELSE [Returned(shared, th, th.found) EXCEPT
                          !.held = DropsGuard(@, t),
                          !.thread[t] = [th EXCEPT !.slot_tracker = th.found,
                                                   !.pc = AfterGetOrInsert(th)]]
        \/ /\ th.pc = "insert"
           /\ Locks(t)
           /\ shared' = [shared EXCEPT
                  !.held = Locked(t),
                  !.arcs = Append(@, NewSlotVoteTracker),
                  !.slot_vote_trackers = Put(@, th.slot, Len(shared.arcs) + 1),
                  !.thread[t] = [th EXCEPT !.found = Len(shared.arcs) + 1,
                                           !.pc = "inserted"]]
        \/ /\ th.pc = "inserted"
           /\ shared' = [Returned(shared, th, th.found) EXCEPT
                  !.held = DropsGuard(@, t),
                  !.thread[t] = [th EXCEPT !.slot_tracker = th.found,
                                           !.pc = AfterGetOrInsert(th)]]

\* the SlotVoteTracker after get_or_insert_optimistic_votes_tracker(hash)
\* .add_vote_pubkey(..), and is_new
AddVotePubkey(slot_tracker, slot, hash, pubkey) ==
    Let(get_or_insert_optimistic_votes_tracker(slot_tracker, hash),
        LAMBDA w_slot_tracker :
    Let(add_vote_pubkey(w_slot_tracker.optimistic_votes_tracker[hash], pubkey,
                        StakeOf(get_epoch(slot), pubkey), total_stake(get_epoch(slot)),
                        THRESHOLDS_TO_CHECK),
        LAMBDA r :
        [ slot_tracker |-> [w_slot_tracker EXCEPT !.optimistic_votes_tracker[hash] = r.tracker],
          is_new |-> r.is_new ]))

\* track_optimistic_confirmation_vote after get_or_insert_slot_tracker: the vote
\* is added under the write lock of the SlotVoteTracker; then the rest of
\* track_new_votes_and_notify_confirmations, which fills diff and takes no lock
TrackOptimisticConfirmationVote(t) ==
    LET th == shared.thread[t]
        op == Head(th.ops)
    IN  \/ /\ th.pc = "track_write"
           /\ Locks(t)
           /\ \E r \in {AddVotePubkey(shared.arcs[th.slot_tracker], th.slot,
                                      op.vote.hash, op.vote_pubkey)} :
               shared' = [shared EXCEPT
                  !.held = Locked(t),
                  !.arcs[th.slot_tracker] = r.slot_tracker,
                  !.recorded = IF th.slot \in shared.purged THEN @
                               ELSE @ \cup {<<th.slot, op.vote.hash, op.vote_pubkey>>},
                  !.thread[t] = [th EXCEPT !.is_new = r.is_new, !.pc = "track_written"]]
        \/ /\ th.pc = "track_written"
           /\ IF ReturnsEarly(th.is_new, op.is_gossip)
              THEN shared' = [shared EXCEPT
                      !.held = DropsGuard(@, t),
                      !.thread[t] = Finish(th)]
              ELSE \E todo \in {op.vote.slots, Reverse(op.vote.slots)} :
                   shared' = [shared EXCEPT
                      !.held = DropsGuard(@, t),
                      !.thread[t] = [th EXCEPT !.at = "fold", !.todo = todo,
                                               !.slot = Head(todo), !.pc = "get"]]

\* the loop over diff after slot_diff.retain: the pubkeys that passed are put
\* into voted and voted_slot_updates, and the stake of those seen in gossip is
\* added to gossip_only_stake
ApplyRetained(w_slot_tracker, slot, slot_diff, root, order) ==
    LET in_gossip == {pubkey \in DOMAIN slot_diff : slot_diff[pubkey]}
        added == [pubkey \in in_gossip |-> sum_stake(root, get_epoch(slot), pubkey)]
    IN  [ voted |-> [pubkey \in DOMAIN w_slot_tracker.voted \cup DOMAIN slot_diff |->
                        IF pubkey \in DOMAIN slot_diff THEN slot_diff[pubkey]
                        ELSE w_slot_tracker.voted[pubkey]],
          optimistic_votes_tracker |-> w_slot_tracker.optimistic_votes_tracker,
          voted_slot_updates |->
              Some(w_slot_tracker.voted_slot_updates.vec \o
                   SelectSeq(order, LAMBDA pubkey : pubkey \in DOMAIN slot_diff)),
          gossip_only_stake |-> w_slot_tracker.gossip_only_stake + SumOver(added, in_gossip) ]

\* one turn of the loop over diff of filter_and_confirm_with_new_votes after
\* get_or_insert_slot_tracker: slot_diff.retain under the read lock of the
\* SlotVoteTracker, then the updates under its write lock
FoldDiffOfSlot(t) ==
    LET th == shared.thread[t]
        op == Head(th.ops)
    IN  \/ /\ th.pc = "fold_read"
           /\ Locks(t)
           /\ shared' = [shared EXCEPT
                  !.held = Locked(t),
                  !.thread[t] = [th EXCEPT
                      !.kept = RetainedInDiff(shared.arcs[th.slot_tracker].voted,
                                              op.vote_pubkey, op.is_gossip),
                      !.pc = "fold_retained"]]
        \/ /\ th.pc = "fold_retained"
           /\ shared' = [shared EXCEPT
                  !.held = DropsGuard(@, t),
                  !.thread[t] = [th EXCEPT !.pc = "fold_write"]]
        \/ /\ th.pc = "fold_write"
           /\ Locks(t)
           /\ shared' = [shared EXCEPT
                  !.held = Locked(t),
                  !.arcs[th.slot_tracker] =
                      ApplyRetained(@, th.slot,
                                    IF th.kept THEN [p \in {op.vote_pubkey} |-> op.is_gossip]
                                    ELSE EmptyMap,
                                    0, <<op.vote_pubkey>>),
                  !.thread[t] = [th EXCEPT !.pc = "fold_written"]]
        \/ /\ th.pc = "fold_written"
           /\ shared' = [shared EXCEPT
                  !.held = DropsGuard(@, t),
                  !.thread[t] = IF Len(th.todo) = 1 THEN Finish(th)
                                ELSE [th EXCEPT !.todo = Tail(@), !.slot = th.todo[2],
                                                !.pc = "get"]]

\* VoteTracker::purge_stale_state
PurgeStaleState(t) ==
    LET th == shared.thread[t]
        new_root == Head(th.ops).root
        root_epoch == get_epoch(new_root)
        kept == RetainedSlots(DOMAIN shared.slot_vote_trackers, new_root)
        gone == DOMAIN shared.slot_vote_trackers \ kept
    IN  \/ /\ th.pc = "purge_slots"
           /\ Locks(t)
           /\ shared' = [shared EXCEPT
                  !.held = Locked(t),
                  !.slot_vote_trackers = [s \in kept |-> @[s]],
                  !.returned = [s \in DOMAIN @ \ gone |-> @[s]],
                  !.recorded = {k \in @ : k[1] \notin gone},
                  !.purged = @ \cup gone,
                  !.thread = [u \in Callers |->
                      IF u = t THEN [th EXCEPT !.pc = "purge_slots_done"]
                      ELSE IF @[u].slot \in gone THEN [@[u] EXCEPT !.expect = 0]
                      ELSE @[u]]]
        \/ /\ th.pc = "purge_slots_done"
           /\ shared' = [shared EXCEPT
                  !.held = DropsGuard(@, t),
                  !.thread[t] = [th EXCEPT !.pc = "purge_epoch"]]
        \/ /\ th.pc = "purge_epoch"
           /\ Locks(t)
           /\ shared' = [shared EXCEPT
                  !.held = Locked(t),
                  !.thread[t] = [th EXCEPT !.epoch = shared.current_epoch,
                                           !.pc = "purge_epoch_read"]]
        \/ /\ th.pc = "purge_epoch_read"
           /\ shared' = [shared EXCEPT
                  !.held = DropsGuard(@, t),
                  !.thread[t] = IF root_epoch # th.epoch
                                THEN [th EXCEPT !.pc = "purge_voters"]
                                ELSE Finish(th)]
        \/ /\ th.pc = "purge_voters"
           /\ Locks(t)
           /\ shared' = [shared EXCEPT
                  !.held = Locked(t),
                  !.epochs = RetainedEpochs(@, root_epoch),
                  !.thread[t] = [th EXCEPT !.pc = "purge_voters_done"]]
        \/ /\ th.pc = "purge_voters_done"
           /\ shared' = [shared EXCEPT
                  !.held = DropsGuard(@, t),
                  !.thread[t] = [th EXCEPT !.pc = "purge_current"]]
        \/ /\ th.pc = "purge_current"
           /\ Locks(t)
           /\ shared' = [shared EXCEPT
                  !.held = Locked(t),
                  !.current_epoch = root_epoch,
                  !.thread[t] = [th EXCEPT !.pc = "purge_current_done"]]
        \/ /\ th.pc = "purge_current_done"
           /\ shared' = [shared EXCEPT
                  !.held = DropsGuard(@, t),
                  !.thread[t] = Finish(th)]

\* VoteTracker::get_slot_vote_tracker and its caller, which reads the
\* SlotVoteTracker under its read lock
GetSlotVoteTracker(t) ==
    LET th == shared.thread[t] IN
        \/ /\ th.pc = "read_get"
           /\ Locks(t)
           /\ shared' = [shared EXCEPT
                  !.held = Locked(t),
                  !.thread[t] = [th EXCEPT
                      !.found = ArcOf(shared.slot_vote_trackers, Head(th.ops).slot),
                      !.pc = "read_got"]]
        \/ /\ th.pc = "read_got"
           /\ shared' = [shared EXCEPT
                  !.held = DropsGuard(@, t),
                  !.thread[t] = IF th.found = 0 THEN Finish(th)
                                ELSE [th EXCEPT !.slot_tracker = th.found,
                                                !.pc = "read_slot"]]
        \/ /\ th.pc = "read_slot"
           /\ Locks(t)
           /\ shared' = [shared EXCEPT
                  !.held = Locked(t),
                  !.thread[t] = [th EXCEPT !.pc = "read_slot_done"]]
        \/ /\ th.pc = "read_slot_done"
           /\ shared' = [shared EXCEPT
                  !.held = DropsGuard(@, t),
                  !.thread[t] = Finish(th)]

InitShared ==
    /\ NewAtGenesis
    /\ configured = OptionalSenders
    /\ InitThreads /\ NoLeaderBank /\ NotVerified(<<>>)
    /\ NoCall /\ NoQosService
    /\ \E first \in ProcessorPrograms, second \in OtherPrograms :
        shared = NewShared([t \in Callers |-> IF t = "first" THEN first ELSE second])

NotShared == <<pvars, lvars, call, qvars, receivers_alive, last_batch, configured>>

NextShared ==
    \/ \E t \in Callers : ChainVoters(t) /\ UNCHANGED NotShared
    \/ \E t \in Callers : GetOrInsertSlotTracker(t) /\ UNCHANGED NotShared
    \/ \E t \in Callers : TrackOptimisticConfirmationVote(t) /\ UNCHANGED NotShared
    \/ \E t \in Callers : FoldDiffOfSlot(t) /\ UNCHANGED NotShared
    \/ \E t \in Callers : PurgeStaleState(t) /\ UNCHANGED NotShared
    \/ \E t \in Callers : GetSlotVoteTracker(t) /\ UNCHANGED NotShared

SpecShared == InitShared /\ [][NextShared]_vars

(***************************************************************************)
(* QosService (qos_service.rs): the threads that call                      *)
(* compute_transaction_costs and the metrics reporting thread              *)
(***************************************************************************)
InitQos ==
    /\ InitProcessVotes /\ InitThreads /\ NoLeaderBank /\ NotVerified(<<>>)
    /\ NoCall
    /\ \E txs \in [QosThreads -> 1..MaxTxs] : NewQosService(txs)

\* AtomicU64::fetch_add and AtomicU64::swap(0, ..): <<new value, returned value>>
fetch_add(atomic, val) == <<atomic + val, atomic>>
swap_zero(atomic) == <<0, atomic>>

\* AtomicInterval::should_update(interval) of solana_sdk: the first call only
\* stores the time; later calls return true when the interval has elapsed
should_update(last, elapsed) == last # 0 /\ elapsed

\* what the threads of the QosService leave alone
NotOfQos == <<pvars, lvars, call, running_flag, txs_costs, receivers_alive, last_batch,
              configured, shared>>

\* compute_transaction_costs up to the first fetch_add: the costs are computed
\* under the read lock and the elapsed time is added to compute_cost_time
ComputeTransactionCosts(t) ==
    /\ qos_pc[t] = "spawned"
    /\ \E compute_cost_time_us \in 0..1 :
        compute_cost_time' = fetch_add(compute_cost_time, compute_cost_time_us)[1]
    /\ qos_pc' = [qos_pc EXCEPT ![t] = "count"]
    /\ UNCHANGED <<compute_cost_count, last_report, reported_count>>
    /\ UNCHANGED NotOfQos

\* compute_transaction_costs, the second fetch_add and the return
AddComputeCostCount(t) ==
    /\ qos_pc[t] = "count"
    /\ compute_cost_count' = fetch_add(compute_cost_count, txs_costs[t])[1]
    /\ qos_pc' = [qos_pc EXCEPT ![t] = "done"]
    /\ UNCHANGED <<compute_cost_time, last_report, reported_count>>
    /\ UNCHANGED NotOfQos

\* reporting_loop: the load of running_flag and QosServiceMetrics::report up to
\* should_update; the sleep when nothing is to report
ReportingLoop ==
    /\ qos_pc[ReportingThread] = "loop"
    /\ IF ~running_flag
       THEN /\ qos_pc' = [qos_pc EXCEPT ![ReportingThread] = "done"]
            /\ UNCHANGED last_report
       ELSE \E elapsed \in BOOLEAN :
            /\ last_report' = 1
            /\ qos_pc' = [qos_pc EXCEPT ![ReportingThread] =
                              IF should_update(last_report, elapsed)
                              THEN "swap_time" ELSE "loop"]
    /\ UNCHANGED <<compute_cost_time, compute_cost_count, reported_count>>
    /\ UNCHANGED NotOfQos

\* QosServiceMetrics::report: compute_cost_time.swap(0)
SwapComputeCostTime ==
    /\ qos_pc[ReportingThread] = "swap_time"
    /\ compute_cost_time' = swap_zero(compute_cost_time)[1]
    /\ qos_pc' = [qos_pc EXCEPT ![ReportingThread] = "swap_count"]
    /\ UNCHANGED <<compute_cost_count, last_report, reported_count>>
    /\ UNCHANGED NotOfQos

\* QosServiceMetrics::report: compute_cost_count.swap(0), the datapoint, and the
\* swaps of the counters compute_transaction_costs does not write; the sleep
SwapComputeCostCount ==
    /\ qos_pc[ReportingThread] = "swap_count"
    /\ compute_cost_count' = swap_zero(compute_cost_count)[1]
    /\ reported_count' = reported_count + swap_zero(compute_cost_count)[2]
    /\ qos_pc' = [qos_pc EXCEPT ![ReportingThread] = "loop"]
    /\ UNCHANGED <<compute_cost_time, last_report>>
    /\ UNCHANGED NotOfQos

\* Drop for QosService, after the calling threads were joined
DropQosService ==
    /\ running_flag
    /\ \A t \in QosThreads : qos_pc[t] = "done"
    /\ running_flag' = FALSE
    /\ UNCHANGED <<pvars, lvars, call, txs_costs, compute_cost_time, compute_cost_count,
                   last_report, qos_pc, reported_count, receivers_alive, last_batch,
                   configured, shared>>

NextQos ==
    \/ \E t \in QosThreads : ComputeTransactionCosts(t)
    \/ \E t \in QosThreads : AddComputeCostCount(t)
    \/ ReportingLoop
    \/ SwapComputeCostTime
    \/ SwapComputeCostCount
    \/ DropQosService

SpecQos == InitQos /\ [][NextQos]_vars

(***************************************************************************)
(* Properties                                                              *)
(***************************************************************************)
Trackers == vote_tracker.slot_vote_trackers

Range(seq) == {seq[i] : i \in 1..Len(seq)}

Count(seq, x) == Cardinality({i \in 1..Len(seq) : seq[i] = x})

\* the slots and the (voter, slot, hash) the validators vote for
VotedSlots == UNION {Range(c.slots) : c \in VoteContents \cup {UnknownEpochVote}}
TipKeys == VoteAccountKeys \X VotedSlots \X Hashes

StakeIn(slot, S) == SumOver([v \in S |-> StakeOf(get_epoch(slot), v)], S)

\* the (voter, slot, hash) first processed from replay and later from gossip
ReplayThenGossip ==
    {k \in DOMAIN seen.tip_first :
        seen.tip_first[k] = "replay" /\ <<k, "gossip">> \in seen.tip_repeat}

\* C1: for every (slot, hash), at most one duplicate-confirmed message, at most
\* one entry in the lists listen_and_confirm_votes returns and, per slot, as many
\* OptimisticallyConfirmed notifications as hashes returned for it, also once
\* the slot's tracker is purged
C1_AtMostOnceThresholds ==
    /\ \A s \in VotedSlots, h \in Hashes :
        /\ Count(buses.duplicate_confirmed, << <<s, h>> >>) <= 1
        /\ Count(confirmed_slots, <<s, h>>) <= 1
    /\ \A s \in VotedSlots :
        Count(buses.bank_notification, s) =
            Cardinality({h \in Hashes : <<s, h>> \in Range(confirmed_slots)})

\* a confirmed slot whose tracker is purged, and a vote below the root delivered
C1_Witness ==
    /\ "below_root" \in last_call
    /\ \E k \in Range(confirmed_slots) :
        /\ k[1] \notin DOMAIN Trackers
        /\ k[1] < last_progress_root
        /\ Count(buses.duplicate_confirmed, <<k>>) = 1
        /\ Count(buses.bank_notification, k[1]) = 1

C4_IdempotentStake ==
    \A s \in DOMAIN Trackers : \A h \in DOMAIN Trackers[s].optimistic_votes_tracker :
        LET t == Trackers[s].optimistic_votes_tracker[h] IN
        /\ t.voted = {v \in VoteAccountKeys : <<v, s, h>> \in DOMAIN seen.tip_first}
        /\ t.stake = SumOver([v \in t.voted |-> IF v \in DOMAIN vote_accounts(get_epoch(s))
                                                   THEN vote_accounts(get_epoch(s))[v] ELSE 0],
                             t.voted)

\* a vote with stake delivered again, from gossip and from replay
C4_Witness ==
    \E k \in DOMAIN seen.tip_first :
        /\ <<k, "gossip">> \in seen.tip_repeat
        /\ <<k, "replay">> \in seen.tip_repeat
        /\ k[2] \in DOMAIN Trackers
        /\ Trackers[k[2]].optimistic_votes_tracker[k[3]].stake > 0

\* C5: after any sequence of deliveries the stake of (slot, hash) is the stake
\* of the voters whose vote for it was processed, and gossip_only_stake of the
\* slot is the stake of the voters a processed gossip vote named for the slot
C5_EventOrdering ==
    \A s \in DOMAIN Trackers :
        /\ Trackers[s].gossip_only_stake =
               StakeIn(s, {v \in VoteAccountKeys : <<v, s>> \in seen.slot_gossip})
        /\ \A h \in DOMAIN Trackers[s].optimistic_votes_tracker :
               Trackers[s].optimistic_votes_tracker[h].stake =
                   StakeIn(s, {v \in VoteAccountKeys : <<v, s, h>> \in DOMAIN seen.tip_first})

\* one voter: gossip and replay of (1, H0) in one call, then replay of (2, H0)
C5_Witness ==
    \E v \in VoteAccountKeys :
        /\ {<<v, 1, "H0">>, <<v, 2, "H0">>} \subseteq DOMAIN seen.tip_first
        /\ seen.tip_first[<<v, 1, "H0">>] = "gossip"
        /\ << <<v, 1, "H0">>, "replay" >> \in seen.tip_repeat
        /\ seen.tip_first[<<v, 2, "H0">>] = "replay"
        /\ <<v, 2>> \notin seen.slot_gossip
        /\ {1, 2} \subseteq DOMAIN Trackers
        /\ StakeOf(get_epoch(1), v) > 0 /\ StakeOf(get_epoch(2), v) > 0
        /\ Trackers[1].gossip_only_stake = StakeOf(get_epoch(1), v)
        /\ Trackers[1].optimistic_votes_tracker["H0"].stake = StakeOf(get_epoch(1), v)
        /\ Trackers[2].gossip_only_stake = 0
        /\ Trackers[2].optimistic_votes_tracker["H0"].stake = StakeOf(get_epoch(2), v)

\* the voters of a slot whose entry in voted becomes true in a step
Promoted(s) ==
    {v \in DOMAIN Trackers'[s].voted :
        Trackers'[s].voted[v] /\ ~(v \in DOMAIN Trackers[s].voted /\ Trackers[s].voted[v])}

\* C6: in every step gossip_only_stake of a slot grows by the stake of the
\* voters whose entry in voted becomes true, an entry that is true stays true,
\* and the entry of a voter a processed gossip vote named for the slot is true
C6_GossipFirstPromotion ==
    [][\A s \in DOMAIN Trackers \cap DOMAIN Trackers' :
        /\ Trackers'[s].gossip_only_stake =
               Trackers[s].gossip_only_stake + StakeIn(s, Promoted(s))
        /\ \A v \in DOMAIN Trackers[s].voted :
               Trackers[s].voted[v] =>
                   (v \in DOMAIN Trackers'[s].voted /\ Trackers'[s].voted[v])
        /\ \A v \in VoteAccountKeys :
               <<v, s>> \in seen'.slot_gossip =>
                   (v \in DOMAIN Trackers'[s].voted /\ Trackers'[s].voted[v])]_vars

\* a voter recorded from replay and promoted by a later gossip vote
C6_Witness ==
    \E s \in DOMAIN Trackers : \E v \in DOMAIN Trackers[s].voted :
        /\ Count(Trackers[s].voted_slot_updates.vec, v) = 2
        /\ Trackers[s].voted[v]
        /\ DOMAIN Trackers[s].voted = {v}
        /\ Trackers[s].gossip_only_stake = StakeOf(get_epoch(s), v)
        /\ StakeOf(get_epoch(s), v) > 0

\* C7: no tracker is held for a slot before the root of the last
\* progress_with_new_root_bank
C7_RootPurge ==
    \A s \in DOMAIN Trackers : s >= last_progress_root

\* a slot whose votes were recorded is purged, another is kept
C7_Witness ==
    /\ \E k \in DOMAIN seen.tip_first :
        k[2] < last_progress_root /\ k[2] \notin DOMAIN Trackers
    /\ \E s \in DOMAIN Trackers : s >= last_progress_root

\* C8: epoch_authorized_voters has no entry for an epoch before current_epoch,
\* which is the epoch of the root of the last progress_with_new_root_bank
C8_EpochPurge ==
    /\ \A e \in DOMAIN vote_tracker.epoch_authorized_voters : e >= vote_tracker.current_epoch
    /\ vote_tracker.current_epoch = get_epoch(last_progress_root)

\* the root crossed into a later epoch
C8_Witness ==
    /\ vote_tracker.current_epoch > 0
    /\ 0 \notin DOMAIN vote_tracker.epoch_authorized_voters
    /\ vote_tracker.current_epoch \in DOMAIN vote_tracker.epoch_authorized_voters

\* C9: a call whose gossip transactions are all unauthorized publishes no
\* gossip-verified vote hash, adds no gossip_only_stake and sets no voted entry
\* to true; without replayed votes it changes no tracker and sends nothing
C9_Authorization ==
    [][ "unauthorized_gossip" \in last_call' =>
        /\ buses'.gossip_verified_vote_hash = buses.gossip_verified_vote_hash
        /\ \A s \in DOMAIN Trackers' :
            /\ Trackers'[s].gossip_only_stake =
                   (IF s \in DOMAIN Trackers THEN Trackers[s].gossip_only_stake ELSE 0)
            /\ \A v \in DOMAIN Trackers'[s].voted :
                   Trackers'[s].voted[v] =>
                       /\ s \in DOMAIN Trackers
                       /\ v \in DOMAIN Trackers[s].voted
                       /\ Trackers[s].voted[v]
        /\ "replay" \notin last_call' =>
            /\ Trackers' = Trackers
            /\ buses' = buses
            /\ confirmed_slots' = confirmed_slots ]_vars

\* a call took an unauthorized gossip transaction and the replayed vote of the
\* same validator, which it recorded as not seen in gossip
C9_Witness ==
    /\ {"unauthorized_gossip", "replay"} \subseteq last_call
    /\ \E s \in DOMAIN Trackers :
        /\ DOMAIN Trackers[s].voted # {}
        /\ \A v \in DOMAIN Trackers[s].voted : ~Trackers[s].voted[v]
        /\ Trackers[s].gossip_only_stake = 0

\* C10: a call whose votes, replayed or from gossip, all have their last slot
\* before the root changes no tracker, sends nothing and returns nothing
C10_BelowRootIgnored ==
    [][ "below_root" \in last_call' =>
        /\ Trackers' = Trackers
        /\ buses' = buses
        /\ confirmed_slots' = confirmed_slots ]_vars

\* a call held replayed votes below the root, and trackers of later slots exist
C10_Witness ==
    /\ {"below_root", "replay"} \subseteq last_call
    /\ root_bank > 1
    /\ \E s \in DOMAIN Trackers : s > root_bank

\* C11: no tracker exists for a slot of an epoch the root bank has no stakes
\* for, a call whose votes have all their slots in such epochs changes nothing,
\* and the slots of a known epoch of a vote are recorded for the voter even
\* when others of its slots are skipped
C11_UnknownEpoch ==
    [][ /\ \A s \in DOMAIN Trackers' : has_epoch_stakes(root_bank', get_epoch(s))
        /\ "unknown_epoch" \in last_call' =>
            /\ Trackers' = Trackers
            /\ buses' = buses
            /\ confirmed_slots' = confirmed_slots
        /\ \A p \in seen'.slot_any \ seen.slot_any :
            /\ p[2] \in DOMAIN Trackers'
            /\ p[1] \in DOMAIN Trackers'[p[2]].voted ]_vars

\* the replayed vote for slots 3 and 4 was recorded for slot 3 only, and the
\* call just made held the vote whose slots are all of an unknown epoch
C11_Witness ==
    /\ {"unknown_epoch", "replay"} \subseteq last_call
    /\ ~has_epoch_stakes(root_bank, get_epoch(4))
    /\ 3 \in DOMAIN Trackers
    /\ "v1" \in DOMAIN Trackers[3].voted
    /\ <<"v1", 3>> \in seen.slot_any
    /\ 4 \notin DOMAIN Trackers

\* voted of a slot before the step, empty when the slot has no tracker
VotedBefore(s) == IF s \in DOMAIN Trackers THEN Trackers[s].voted ELSE EmptyMap

\* the step adds voter v to the voted set of (s, h)
NewInHash(v, s, h) ==
    /\ s \in DOMAIN Trackers'
    /\ h \in DOMAIN Trackers'[s].optimistic_votes_tracker
    /\ v \in Trackers'[s].optimistic_votes_tracker[h].voted
    /\ ~(/\ s \in DOMAIN Trackers
         /\ h \in DOMAIN Trackers[s].optimistic_votes_tracker
         /\ v \in Trackers[s].optimistic_votes_tracker[h].voted)

\* the step records the voter for a slot or promotes its entry to gossip
NewInVoted(v, s) ==
    /\ s \in DOMAIN Trackers'
    /\ v \in DOMAIN Trackers'[s].voted
    /\ \/ v \notin DOMAIN VotedBefore(s)
       \/ Trackers'[s].voted[v] /\ ~VotedBefore(s)[v]

\* the positions the step adds to the verified-vote bus
NewVerifiedVotes == (Len(buses.verified_vote) + 1)..Len(buses'.verified_vote)

\* the step publishes (v, slots) with last slot s and notifies of the vote with hash h
NotifiedOf(v, s, h) ==
    \E i \in NewVerifiedVotes :
        /\ buses'.verified_vote[i][1] = v
        /\ Last(buses'.verified_vote[i][2]) = s
        /\ i <= Len(buses'.notify_vote)
        /\ buses'.notify_vote[i].slots = buses'.verified_vote[i][2]
        /\ buses'.notify_vote[i].hash = h

\* C12 as stated: a step that records a voter for a slot, promotes its entry to
\* gossip or adds it to a hash tracker publishes a verified vote of the voter
C12_Original ==
    [][ \A v \in VoteAccountKeys :
            (\E s \in VotedSlots : NewInVoted(v, s) \/ \E h \in Hashes : NewInHash(v, s, h))
            => \E i \in NewVerifiedVotes : buses'.verified_vote[i][1] = v ]_vars

\* C12, amended: a step notifies of a vote and publishes (voter, slots) exactly
\* for the voters it adds to the hash tracker of the vote's last slot
C12_NotifiesNewVote ==
    [][ /\ Len(buses'.notify_vote) = Len(buses'.verified_vote)
        /\ \A v \in VoteAccountKeys, s \in VotedSlots, h \in Hashes :
            NewInHash(v, s, h) <=> NotifiedOf(v, s, h) ]_vars

\* one validator published once for the vote {[1], H0}, delivered from replay
\* and then, promoting its entry, from gossip
C12_Witness ==
    \E v \in VoteAccountKeys :
        /\ <<v, 1, "H0">> \in ReplayThenGossip
        /\ 1 \in DOMAIN Trackers
        /\ v \in DOMAIN Trackers[1].voted /\ Trackers[1].voted[v]
        /\ buses.verified_vote = << <<v, <<1>>>> >>
        /\ buses.notify_vote = << [slots |-> <<1>>, hash |-> "H0"] >>

\* C13: the verified-vote bus holds one (voter, slots) per first delivery of a
\* (voter, tip, hash), in the order of delivery: within a call the gossip
\* transactions as received, then the replayed votes as received
C13_VerifiedVoteOrder ==
    buses.verified_vote = seen.tip_order

\* one call delivered the vote {[1], H0} of v2 from gossip and of v1 from
\* replay, and a second call delivered one of them again
C13_Witness ==
    /\ buses.verified_vote = << <<"v2", <<1>>>>, <<"v1", <<1>>>> >>
    /\ calls = 2
    /\ {<<"v2", 1, "H0">>, <<"v1", 1, "H0">>} \subseteq DOMAIN seen.tip_first
    /\ seen.tip_first[<<"v2", 1, "H0">>] = "gossip"
    /\ seen.tip_first[<<"v1", 1, "H0">>] = "replay"
    /\ seen.tip_repeat # {}

\* the hash trackers of a slot before the step, none when the slot has no tracker
HashTrackersBefore(s) ==
    IF s \in DOMAIN Trackers THEN Trackers[s].optimistic_votes_tracker ELSE EmptyMap

\* the (voter, tip, hash) first processed in the step
NewTipKeys == DOMAIN seen'.tip_first \ DOMAIN seen.tip_first

\* C14: a step adds a voter to the hash tracker of (slot, hash) only as the
\* first processed vote of the voter with that last slot and hash, leaves the hash
\* trackers of every slot that is the last slot of no such vote as they were, and
\* records the voter in voted and voted_slot_updates of every slot of the vote
C14_OnlyTipConfirms ==
    [][ /\ \A s \in DOMAIN Trackers' :
            /\ \A h \in DOMAIN Trackers'[s].optimistic_votes_tracker :
                \A v \in Trackers'[s].optimistic_votes_tracker[h].voted :
                    NewInHash(v, s, h) => <<v, s, h>> \in NewTipKeys
            /\ (\A k \in NewTipKeys : k[2] # s) =>
                Trackers'[s].optimistic_votes_tracker = HashTrackersBefore(s)
        /\ \A p \in seen'.slot_any \ seen.slot_any :
            /\ p[2] \in DOMAIN Trackers'
            /\ p[1] \in DOMAIN Trackers'[p[2]].voted
            /\ p[1] \in Range(Trackers'[p[2]].voted_slot_updates.vec) ]_vars

\* the vote {[1, 2], H0} of a validator: recorded for slots 1 and 2, in a hash
\* tracker of slot 2 only
C14_Witness ==
    \E v \in VoteAccountKeys :
        /\ <<v, 2, "H0">> \in DOMAIN seen.tip_first
        /\ {1, 2} \subseteq DOMAIN Trackers
        /\ v \in DOMAIN Trackers[1].voted /\ v \in DOMAIN Trackers[2].voted
        /\ Trackers[1].voted_slot_updates.vec = <<v>>
        /\ Trackers[1].optimistic_votes_tracker = EmptyMap
        /\ v \in Trackers[2].optimistic_votes_tracker["H0"].voted

SignaturesOf(messages) == {Flatten(messages)[i].signature : i \in 1..Len(Flatten(messages))}

\* C15: the sender state of the packet forwarder exists once
\* check_for_leader_bank_and_send_votes was called and is always the state of
\* the bank of the last call. Made by a first call or by a call with a bank of
\* another slot, it starts from an empty sent-signature set and zeroed stats, so
\* that after the call it holds what this call sent and nothing else; replacing
\* a state reports the metrics of the old one. A call with a bank of the same
\* slot keeps the bank, reports nothing, and leaves the sent-signature set as it
\* was but for the signatures it sends.
C15_SenderStateMachine ==
    [][ LET old == bank_vote_sender_state_option
            new == bank_vote_sender_state_option'
        IN  /\ IF sent_to_bank'.bank = 0
               THEN ~new.is_some
               ELSE new.is_some /\ new.bank = sent_to_bank'.bank
            /\ sent_to_bank'.bank # sent_to_bank.bank =>
                /\ verified_packets_receiver_alive =>
                    /\ new.previously_sent_to_bank_votes = SignaturesOf(verified_packets')
                    /\ new.num_batches_sent = Len(verified_packets')
                    /\ new.num_votes_sent = Len(Flatten(verified_packets'))
                /\ IF old.is_some
                   THEN reported_metrics' =
                            [ is_some |-> TRUE, slot |-> old.bank,
                              num_votes_sent |-> old.num_votes_sent,
                              num_batches_sent |-> old.num_batches_sent ]
                   ELSE reported_metrics' = reported_metrics
            /\ sent_to_bank'.bank = sent_to_bank.bank /\ old.is_some =>
                /\ new.bank = old.bank
                /\ reported_metrics' = reported_metrics
                /\ old.previously_sent_to_bank_votes \subseteq new.previously_sent_to_bank_votes
                /\ verified_packets_receiver_alive =>
                    new.previously_sent_to_bank_votes =
                        old.previously_sent_to_bank_votes \cup SignaturesOf(verified_packets')
      ]_vars

\* a state of slot 2 that sent votes replaced a state of slot 1 that had sent
\* votes and whose metrics were reported
C15_Witness ==
    /\ reported_metrics.is_some
    /\ reported_metrics.slot = 1
    /\ reported_metrics.num_votes_sent > 0
    /\ bank_vote_sender_state_option.is_some
    /\ bank_vote_sender_state_option.bank = 2
    /\ bank_vote_sender_state_option.previously_sent_to_bank_votes # {}

\* C16: among the signatures of the vote packets sent on the verified-packets
\* channel since the working bank of the forwarder had its present slot, none
\* occurs twice, however many iterations of bank_send_loop ran for that bank.
C16_NoSignatureSentTwice ==
    \A i, j \in 1..Len(sent_to_bank.signatures) :
        sent_to_bank.signatures[i] = sent_to_bank.signatures[j] => i = j

\* the three votes of the buckets were sent to the bank of slot 1 and a later
\* iteration for the same bank sent nothing
C16_Witness ==
    /\ working_bank = 1
    /\ sent_to_bank.bank = 1
    /\ Len(sent_to_bank.signatures) = 3
    /\ verified_packets = <<>>
    /\ pc["bank_send_loop"] = "loop"
    /\ "v1" \in DOMAIN verified_vote_packets
    /\ Len(verified_vote_packets["v1"]) = 2

\* the validator whose vote the packet carries
ValidatorOf(entry) == entry.packet.vote_account

UpstreamGone ==
    /\ Disconnected
    /\ gossip_vote_txs_receiver = <<>>
    /\ replay_votes_receiver = <<>>

\* C18: when listen_and_confirm_votes returns while an upstream channel of
\* process_votes_loop is disconnected and both channels are empty,
\* process_votes_loop has terminated.
C18_DisconnectedStops ==
    [][ ( /\ pc["process_votes_loop"] = "listen"
          /\ UpstreamGone
          /\ pc'["process_votes_loop"] # "listen" )
        => pc'["process_votes_loop"] = "done" ]_vars

\* the replay stage dropped its sender, nothing is on the channels, the exit
\* flag is not set, and listen_and_confirm_votes debits its wait
C18_Witness ==
    /\ ~exit
    /\ UpstreamGone
    /\ pc["process_votes_loop"] = "listen"
    /\ remaining_wait_time < ListenWait

\* C19: once the exit flag is set, recv_loop, process_votes_loop and
\* bank_send_loop all eventually terminate; and with the flag set a thread at
\* the top of its loop does not start another iteration: its next step ends it.
C19_Cancellation ==
    /\ exit ~> (\A t \in Threads : pc[t] = "done")
    /\ [][ \A t \in Threads :
             (exit /\ pc[t] = "loop" /\ pc'[t] # "loop") => pc'[t] = "done" ]_vars

\* the flag is set and the three threads ended, with votes left on the channel
\* of recv_loop and the replay sender still alive
C19_Witness ==
    /\ exit
    /\ \A t \in Threads : pc[t] = "done"
    /\ gossip_vote_txs_receiver # <<>>
    /\ replay_votes_sender_alive

\* the positions of the input whose transaction parses as a vote with slots and
\* whose packet signature verification did not mark discard
KeptPositions(votes) ==
    {i \in 1..Len(votes) :
        votes[i].is_vote /\ votes[i].vote.slots # <<>> /\ ~discard(votes[i])}

\* C20: verify_votes returns the input transactions that parse as a vote with
\* a non-empty slot list and whose packet was not marked discard, in input
\* order; the list of metadata has the same length and its k-th entry is of the
\* k-th returned transaction (its packet, first signature, vote account and
\* vote); an empty input gives two empty lists.
C20_VerifyVotes ==
    verified.called =>
        LET votes == verified.votes
            vote_txs == verified.vote_txs
            vote_metadata == verified.vote_metadata
        IN  /\ Len(vote_txs) = Cardinality(KeptPositions(votes))
            /\ \E f \in [1..Len(vote_txs) -> KeptPositions(votes)] :
                /\ \A k, l \in 1..Len(vote_txs) : k < l => f[k] < f[l]
                /\ \A k \in 1..Len(vote_txs) : vote_txs[k] = votes[f[k]]
            /\ Len(vote_metadata) = Len(vote_txs)
            /\ \A k \in 1..Len(vote_txs) :
                /\ vote_metadata[k].packet = vote_txs[k]
                /\ vote_metadata[k].signature = vote_txs[k].signatures[1]
                /\ vote_metadata[k].vote_account_key = vote_txs[k].vote_account
                /\ vote_metadata[k].vote = vote_txs[k].vote
            /\ votes = <<>> => vote_txs = <<>> /\ vote_metadata = <<>>

\* of three transactions the one with the bad signature, in the middle, was
\* dropped and the two others returned in their order
C20_Witness ==
    /\ verified.called
    /\ verified.votes = <<TxVote3, TxBadSignature, TxVote2>>
    /\ verified.vote_txs = <<TxVote3, TxVote2>>
    /\ Len(verified.vote_metadata) = 2

\* C21: in every reachable state a voter marked true in the voted map of a
\* slot was held, with that slot, by an accepted gossip vote; and a voter
\* marked true stays marked true as long as the tracker of the slot exists.
C21_VotedMeansGossip ==
    /\ [](\A s \in DOMAIN Trackers : \A v \in DOMAIN Trackers[s].voted :
            Trackers[s].voted[v] => <<v, s>> \in seen.slot_gossip)
    /\ [][ \A s \in DOMAIN Trackers \cap DOMAIN Trackers' :
             \A v \in DOMAIN Trackers[s].voted :
                Trackers[s].voted[v] =>
                    v \in DOMAIN Trackers'[s].voted /\ Trackers'[s].voted[v] ]_vars

\* v1 is marked true for slot 1, having voted for it in gossip with one hash
\* and in replay with another
C21_Witness ==
    /\ 1 \in DOMAIN Trackers
    /\ "v1" \in DOMAIN Trackers[1].voted
    /\ Trackers[1].voted["v1"]
    /\ {<<"v1", 1, "H0">>, <<"v1", 1, "H1">>} \subseteq DOMAIN seen.tip_first
    /\ seen.tip_first[<<"v1", 1, "H0">>] = "gossip"
    /\ seen.tip_first[<<"v1", 1, "H1">>] = "replay"

\* the stake of the vote accounts of S in the epoch stakes of the epoch of slot
EpochStakeOf(slot, S) ==
    LET accounts == vote_accounts(get_epoch(slot)) IN
        SumOver([v \in S |-> IF v \in DOMAIN accounts THEN accounts[v] ELSE 0], S)

\* C22: in every reachable state, for every slot and hash, the stake of the
\* optimistic votes tracker is the sum of the stakes, in the epoch of the slot,
\* of the voters of its voted set, and is at most the total stake of that epoch.
C22_StakeIsSumOfVoters ==
    \A s \in DOMAIN Trackers : \A h \in DOMAIN Trackers[s].optimistic_votes_tracker :
        /\ Trackers[s].optimistic_votes_tracker[h].stake =
               EpochStakeOf(s, Trackers[s].optimistic_votes_tracker[h].voted)
        /\ Trackers[s].optimistic_votes_tracker[h].stake <= total_stake(get_epoch(s))

\* every vote account voted for one (slot, hash) of epoch 0 and the stake is the
\* total stake; v2, without stake in epoch 1, voted for slot 2
C22_Witness ==
    /\ \E s \in DOMAIN Trackers : \E h \in DOMAIN Trackers[s].optimistic_votes_tracker :
        /\ Trackers[s].optimistic_votes_tracker[h].voted = VoteAccountKeys
        /\ Trackers[s].optimistic_votes_tracker[h].stake = total_stake(get_epoch(s))
        /\ get_epoch(s) = 0
    /\ 2 \in DOMAIN Trackers
    /\ \E h \in DOMAIN Trackers[2].optimistic_votes_tracker :
        "v2" \in Trackers[2].optimistic_votes_tracker[h].voted

\* the account keys at the signer positions of a message
SignerKeys(message) ==
    {message.account_keys[i] : i \in {j \in DOMAIN message.account_keys : is_signer(message, j)}}

\* C23: vote_contains_authorized_voter accepts a vote transaction exactly when
\* an account key at a signer position of its message is the authorized voter;
\* the vote account of a transaction that another authorized voter signed, a key
\* at a non-signer position, does not pass.
C23_SignerPositionsOnly ==
    (call.fn = "vote_contains_authorized_voter" /\ call.returned) =>
        /\ call.result = (call.args[2] \in SignerKeys(call.args[1]))
        /\ (/\ call.args[1].account_keys = <<NodeKey, "k1", "v1">>
            /\ call.args[1].num_required_signatures = 2) =>
                call.result = (call.args[2] \in {NodeKey, "k1"})

\* the vote account v1 is asked for on the transaction k1 signed for it, and is
\* not accepted
C23_Witness ==
    /\ call.fn = "vote_contains_authorized_voter"
    /\ call.returned
    /\ call.args = <<new_vote_transaction("v1", [slots |-> <<1>>, hash |-> "H0"], "k1"), "v1">>
    /\ call.result = FALSE

\* EpochSchedule::get_last_slot_in_epoch
get_last_slot_in_epoch(epoch) == (epoch + 1) * SLOTS_PER_EPOCH - 1

\* C24: get_authorized_voter returns the authorized voter of the pubkey in the
\* epoch of the slot when epoch_authorized_voters has that epoch and the epoch
\* holds the pubkey; it returns nothing when the epoch is not installed, as for
\* the first slot after the last known leader schedule epoch, and when the epoch
\* does not hold the pubkey, whatever the other epochs hold.
C24_AuthorizedVoterOfEpoch ==
    (call.fn = "get_authorized_voter" /\ call.returned) =>
        LET vt == call.args[1]
            pubkey == call.args[2]
            slot == call.args[3]
            epoch == get_epoch(slot)
            installed == DOMAIN vt.epoch_authorized_voters
        IN  /\ IF epoch \in installed /\ pubkey \in DOMAIN vt.epoch_authorized_voters[epoch]
               THEN /\ call.result = <<TRUE, vt.epoch_authorized_voters[epoch][pubkey]>>
                    /\ call.result[2] = bank_epoch_authorized_voters(epoch)[pubkey]
               ELSE call.result[1] = FALSE
            /\ slot = get_last_slot_in_epoch(vt.leader_schedule_epoch) + 1 =>
                  call.result[1] = FALSE
            /\ slot = get_last_slot_in_epoch(vt.leader_schedule_epoch) /\ pubkey = "v1" =>
                  call.result[1] = TRUE

\* v2, known in epoch 0 and not in epoch 1, is asked for at a slot of epoch 1,
\* which is installed: nothing is returned
C24_Witness ==
    /\ call.fn = "get_authorized_voter"
    /\ call.returned
    /\ call.args = <<NewVoteTracker(0), "v2", 2>>
    /\ 1 \in DOMAIN call.args[1].epoch_authorized_voters
    /\ "v2" \in DOMAIN call.args[1].epoch_authorized_voters[0]
    /\ call.result[1] = FALSE

\* C25: progress_leader_schedule_epoch installs, for every epoch from
\* leader_schedule_epoch to the leader schedule epoch of the root bank that
\* epoch_authorized_voters does not hold, the authorized voters of the root
\* bank's epoch stakes of that epoch, leaves the other epochs as they were, and
\* afterwards leader_schedule_epoch is the leader schedule epoch of the root bank
\* when that is greater than the value before, and the value before otherwise.
C25_InstallsLeaderScheduleEpochs ==
    (call.fn = "progress_leader_schedule_epoch" /\ call.returned) =>
        LET before == call.args[1]
            after == call.result
            target == get_leader_schedule_epoch(call.args[2])
            range == before.leader_schedule_epoch..target
        IN  /\ DOMAIN after.epoch_authorized_voters =
                   DOMAIN before.epoch_authorized_voters \cup range
            /\ \A e \in DOMAIN after.epoch_authorized_voters :
                   after.epoch_authorized_voters[e] =
                       IF e \in DOMAIN before.epoch_authorized_voters
                       THEN before.epoch_authorized_voters[e]
                       ELSE bank_epoch_authorized_voters(e)
            /\ after.leader_schedule_epoch =
                   IF target > before.leader_schedule_epoch THEN target
                   ELSE before.leader_schedule_epoch
            /\ after.current_epoch = before.current_epoch
            /\ after.slot_vote_trackers = before.slot_vote_trackers

\* the root moves from epoch 0 to epoch 2: the epochs 2 and 3 are installed and
\* leader_schedule_epoch goes from 1 to 3
C25_Witness ==
    /\ call.fn = "progress_leader_schedule_epoch"
    /\ call.returned
    /\ call.args[1].leader_schedule_epoch = 1
    /\ DOMAIN call.args[1].epoch_authorized_voters = {0, 1}
    /\ DOMAIN call.result.epoch_authorized_voters = {0, 1, 2, 3}
    /\ call.result.leader_schedule_epoch = 3

\* C29: in recv_loop a failed send ends the thread. For a fetch that is not
\* empty the verified transactions are sent before the packets: when the
\* receiver of the transactions is gone nothing is sent, when only the receiver
\* of the packets is gone the transactions have been sent and the packets are
\* not; either failure ends recv_loop, and after its end it counts no fetched
\* vote and sends nothing more.
C29_SendFailureStopsRecvLoop ==
    /\ [][ (pc["recv_loop"] = "send" /\ pc'["recv_loop"] # "send") =>
             LET transactions_sent ==
                     gossip_vote_txs_receiver' =
                         Append(gossip_vote_txs_receiver, recv_votes.vote_txs)
                 packets_sent ==
                     verified_vote_label_packets_receiver' =
                         Append(verified_vote_label_packets_receiver,
                                recv_votes.vote_metadata)
             IN  /\ transactions_sent \/ UNCHANGED gossip_vote_txs_receiver
                 /\ packets_sent \/ UNCHANGED verified_vote_label_packets_receiver
                 /\ packets_sent => transactions_sent
                 /\ pc["process_votes_loop"] = "done" =>
                        /\ ~transactions_sent /\ ~packets_sent
                        /\ pc'["recv_loop"] = "done"
                 /\ (pc["process_votes_loop"] # "done" /\ pc["bank_send_loop"] = "done") =>
                        /\ transactions_sent /\ ~packets_sent
                        /\ pc'["recv_loop"] = "done"
                 /\ (pc["process_votes_loop"] # "done" /\ pc["bank_send_loop"] # "done") =>
                        /\ transactions_sent /\ packets_sent
                        /\ pc'["recv_loop"] = "loop" ]_vars
    /\ [][ pc["recv_loop"] = "done" =>
             /\ pc'["recv_loop"] = "done"
             /\ UNCHANGED <<recv_count, recv_votes>>
             /\ Len(gossip_vote_txs_receiver') <= Len(gossip_vote_txs_receiver)
             /\ Len(verified_vote_label_packets_receiver') <=
                    Len(verified_vote_label_packets_receiver) ]_vars

\* recv_loop fetched five votes and ended although nothing of them went
\* anywhere: process_votes_loop had returned, the send of the transactions
\* failed and the packets were not sent to bank_send_loop, which is running
C29_Witness ==
    /\ pc["recv_loop"] = "done"
    /\ pc["process_votes_loop"] = "done"
    /\ pc["bank_send_loop"] = "loop"
    /\ fetches = 1
    /\ recv_count = 5
    /\ calls = 0
    /\ gossip_vote_txs_receiver = <<>>
    /\ verified_vote_label_packets_receiver = <<>>
    /\ verified_vote_packets = EmptyMap

\* the number of gossip transactions of a drained batch that do not pass
\* filter_gossip_votes
DroppedGossipVotes(eav, gossip_vote_txs) ==
    Cardinality({ i \in 1..Len(gossip_vote_txs) :
        ~filter_gossip_votes(eav, parse_vote_transaction(gossip_vote_txs[i]).vote_pubkey,
                             parse_vote_transaction(gossip_vote_txs[i]).vote,
                             gossip_vote_txs[i]) })

\* the counters the listener keeps: recv_count of recv_loop and the
\* BankSendVotesStats of bank_send_loop
ListenerCounters ==
    [ recv_count |-> recv_count,
      num_votes_sent |-> IF bank_vote_sender_state_option.is_some
                         THEN bank_vote_sender_state_option.num_votes_sent ELSE 0,
      num_batches_sent |-> IF bank_vote_sender_state_option.is_some
                           THEN bank_vote_sender_state_option.num_batches_sent ELSE 0 ]

\* C26: a gossip vote that the filter drops (no slots, no authorized voter, not
\* signed by the authorized voter) is dropped silently, and a counter of the
\* listener goes up by one for each dropped vote: a call of
\* listen_and_confirm_votes that drops n > 0 gossip votes adds n to a counter,
\* and when it holds nothing but dropped votes it changes no tracker and sends
\* nothing.
C26_DropIsCounted ==
    [][ ( /\ pc["process_votes_loop"] = "listen"
          /\ Flatten(gossip_vote_txs_receiver) # <<>>
          /\ gossip_vote_txs_receiver' = <<>>
          /\ DroppedGossipVotes(vote_tracker.epoch_authorized_voters,
                                Flatten(gossip_vote_txs_receiver)) > 0 )
        => /\ \E c \in DOMAIN ListenerCounters :
                ListenerCounters'[c] = ListenerCounters[c] +
                    DroppedGossipVotes(vote_tracker.epoch_authorized_voters,
                                       Flatten(gossip_vote_txs_receiver))
           /\ ( /\ replay_votes_receiver = <<>>
                /\ DroppedGossipVotes(vote_tracker.epoch_authorized_voters,
                                      Flatten(gossip_vote_txs_receiver))
                       = Len(Flatten(gossip_vote_txs_receiver)) )
              => UNCHANGED <<vote_tracker, buses, confirmed_slots>> ]_vars

\* listen_and_confirm_votes is about to drain a batch that holds a vote of v1
\* for a slot of epoch 1 that v1 signed itself, not k1, its authorized voter
C26_Witness ==
    /\ pc["process_votes_loop"] = "listen"
    /\ Flatten(gossip_vote_txs_receiver) = <<TxVote2, TxVote1, TxVote3>>
    /\ DroppedGossipVotes(vote_tracker.epoch_authorized_voters,
                          Flatten(gossip_vote_txs_receiver)) = 1

\* the threads whose call of compute_transaction_costs has returned
QosReturned == {t \in QosThreads : qos_pc[t] = "done"}

\* C27: when the threads call compute_transaction_costs concurrently, after all
\* calls have returned compute_cost_count is the total number of transactions
\* passed in all calls, under every interleaving, those with the metrics
\* reporting thread included.
C27_CountIsTotal ==
    QosReturned = QosThreads => compute_cost_count = SumOver(txs_costs, QosThreads)

\* every call has returned and the reporting thread has taken a part of the
\* count out of compute_cost_count in between
C27_Witness ==
    /\ QosReturned = QosThreads
    /\ reported_count > 0
    /\ compute_cost_count > 0
    /\ compute_cost_count + reported_count = SumOver(txs_costs, QosThreads)

\* the senders of process_votes_loop with every receiver alive
AllReceiversAlive ==
    [cluster_confirmed_slot |-> TRUE, bank_notification |-> TRUE, receivers |-> BusNames]

\* C28: a failed send on a bus of process_votes_loop (verified vote, gossip
\* verified vote hash, duplicate confirmed, bank notification) does not stop
\* filter_and_confirm_with_new_votes: whatever receivers were dropped, the
\* trackers after the call, the returned optimistic slots, the votes notified
\* and the messages queued for the live receivers are those of the call in
\* which every send succeeds, and nothing is queued for a dropped receiver.
C28_FailedSendGoesOn ==
    [][ calls' = calls + 1 =>
          \E order \in Orders :
            LET ok == filter_and_confirm_with_new_votes(vote_tracker, last_batch'[1],
                          last_batch'[2], root_bank, buses, AllReceiversAlive, order)
            IN  /\ vote_tracker'.slot_vote_trackers = ok.slot_vote_trackers
                /\ confirmed_slots' = confirmed_slots \o ok.new_optimistic_confirmed_slots
                /\ buses'.notify_vote = ok.notify_vote
                /\ \A bus \in BusNames :
                      buses'[bus] = IF bus \in receivers_alive THEN ok[bus] ELSE buses[bus]
      ]_vars

\* every receiver was dropped before the call; the two gossip votes of the
\* batch were both tracked with every send failing, and the slot was returned as
\* optimistically confirmed
C28_Witness ==
    /\ receivers_alive = {}
    /\ calls = 1
    /\ Len(last_batch[1]) = 2
    /\ \A bus \in BusNames : buses[bus] = <<>>
    /\ Len(buses.notify_vote) = 2
    /\ confirmed_slots # <<>>
    /\ \E s \in DOMAIN Trackers : \E h \in DOMAIN Trackers[s].optimistic_votes_tracker :
          Trackers[s].optimistic_votes_tracker[h].voted = VoteAccountKeys

(***************************************************************************)
(* process_votes_loop scheduled after recv_loop and the replay stage sent  *)
(***************************************************************************)
\* the queues of at most MaxBacklog messages out of the set
Backlogs(messages) ==
    UNION { [1..n -> messages] : n \in 0..MaxBacklog }

\* ClusterInfoVoteListener::new, and process_votes_loop is first scheduled when
\* recv_loop sent the verified votes of some fetches and the replay stage some
\* votes
InitListen ==
    /\ InitProcessVotes
    /\ exit = FALSE
    /\ pc = [t \in Threads |-> "loop"]
    /\ gossip_vote_txs_receiver \in
         Backlogs({verify_votes(votes).vote_txs : votes \in FetchedVotes})
    /\ verified_vote_label_packets_receiver = <<>>
    /\ replay_votes_receiver \in Backlogs(ReplayVoteInputs)
    /\ replay_votes_sender_alive = TRUE
    /\ verified_packets_receiver_alive = TRUE
    /\ remaining_wait_time = ListenWait
    /\ wakeups = 0
    /\ verified_vote_packets = EmptyMap
    /\ bank_vote_sender_state_option = NoSenderState
    /\ verified_packets = <<>>
    /\ sent_to_bank = [bank |-> 0, signatures |-> <<>>]
    /\ reported_metrics = [is_some |-> FALSE]
    /\ fetches = 0
    /\ recv_count = 0
    /\ recv_votes = NoVotes
    /\ NotVerified(<<>>)
    /\ NoCall /\ NoQosService
    /\ NoLeaderBank

\* process_votes_loop and the replay stage run, recv_loop and bank_send_loop wait
NextListen ==
    \/ ProcessVotesLoopTop
    \/ ReadyTimeout
    \/ ReadyDrain
    \/ SendReplayVote
    \/ DropReplaySender
    \/ SetExit

SpecListen == InitListen /\ [][NextListen]_vars

\* the scheduler runs process_votes_loop whenever it can take a step
FairListen ==
    /\ SpecListen
    /\ WF_<<pc, remaining_wait_time>>(ProcessVotesStep)

\* what filter_and_confirm_with_new_votes leaves behind when it is handed the
\* two vectors
ConfirmedWith(gossip_vote_txs, replay_votes) ==
    \E order \in Orders :
    \E ps \in {filter_and_confirm_with_new_votes(vote_tracker, gossip_vote_txs,
                   replay_votes, root_bank, buses, LoopSenders, order)} :
            /\ vote_tracker'.slot_vote_trackers = ps.slot_vote_trackers
            /\ buses'.gossip_verified_vote_hash = ps.gossip_verified_vote_hash
            /\ buses'.duplicate_confirmed = ps.duplicate_confirmed
            /\ buses'.bank_notification = ps.bank_notification
            /\ buses'.verified_vote = ps.verified_vote
            /\ confirmed_slots' = confirmed_slots \o ps.new_optimistic_confirmed_slots

\* C30: listen_and_confirm_votes always returns. While it listens, some wait is
\* left, and the wakeups that drained nothing and the wait left never exceed
\* the wait it started with; a wakeup that drains nothing takes at least 1
\* from the wait, changes nothing of the vote tracking, and returns the empty
\* batch once no wait is left; a wakeup that drains a vote from either channel
\* empties both channels and hands every drained vote, the gossip votes of all
\* messages in order and all replay votes, to one call of
\* filter_and_confirm_with_new_votes, whose result is returned; and a call
\* that listens returns.
C30_ListenAlwaysReturns ==
    /\ [](pc["process_votes_loop"] = "listen" =>
            /\ remaining_wait_time >= 1
            /\ wakeups + remaining_wait_time <= ListenWait)
    /\ [][wakeups' = wakeups + 1 =>
            /\ Flatten(gossip_vote_txs_receiver) = <<>>
            /\ replay_votes_receiver = <<>>
            /\ remaining_wait_time' <= remaining_wait_time - 1
            /\ UNCHANGED pvars
            /\ pc'["process_votes_loop"] =
                 IF remaining_wait_time' = 0 THEN "loop" ELSE "listen"]_vars
    /\ [][calls' = calls + 1 =>
            /\ pc["process_votes_loop"] = "listen"
            /\ Flatten(gossip_vote_txs_receiver) # <<>> \/ replay_votes_receiver # <<>>
            /\ ConfirmedWith(Flatten(gossip_vote_txs_receiver), replay_votes_receiver)
            /\ gossip_vote_txs_receiver' = <<>>
            /\ replay_votes_receiver' = <<>>
            /\ pc'["process_votes_loop"] = "loop"]_vars
    /\ [][/\ pc["process_votes_loop"] = "listen"
          /\ Flatten(gossip_vote_txs_receiver) # <<>> \/ replay_votes_receiver # <<>>
          /\ pc'["process_votes_loop"] # "listen"
          => calls' = calls + 1]_vars
    /\ (pc["process_votes_loop"] = "listen" ~> pc["process_votes_loop"] = "loop")

\* a call drained the gossip messages and the replay votes into one call of
\* filter_and_confirm_with_new_votes, and the next call ran out of wait over
\* wakeups that drained nothing and returned the empty batch
C30_Witness ==
    /\ pc["process_votes_loop"] = "loop"
    /\ wakeups = ListenWait
    /\ remaining_wait_time = 0
    /\ calls = 1
    /\ Len(buses.verified_vote) >= 2

\* one wakeup drained gossip votes and a replay vote, and the call returned
C30_WitnessDrain ==
    /\ pc["process_votes_loop"] = "loop"
    /\ calls = 1
    /\ wakeups = 0
    /\ "replay" \in last_call
    /\ Len(buses.verified_vote) >= 2
    /\ gossip_vote_txs_receiver = <<>>
    /\ replay_votes_receiver = <<>>

\* the voters of (s, h) before the step
HashVotersBefore(s, h) ==
    IF h \in DOMAIN HashTrackersBefore(s) THEN HashTrackersBefore(s)[h].voted ELSE {}

\* the voters of (s, h) once the first i delivered votes are processed
VotersUpTo(delivered, i, s, h) ==
    HashVotersBefore(s, h) \cup
    { delivered[j].vote_pubkey : j \in
        { j \in 1..i : /\ TipProcessed(delivered[j], root_bank)
                       /\ Last(delivered[j].vote.slots) = s
                       /\ delivered[j].vote.hash = h } }

\* the stake of the voters is more than 2/3 of the stake of the slot's epoch
OverVoteThreshold(s, S) == 3 * StakeIn(s, S) > 2 * total_stake(get_epoch(s))

\* the i-th delivered vote brings its (tip, hash) over VOTE_THRESHOLD_SIZE
CrossesAt(delivered, i) ==
    LET s == Last(delivered[i].vote.slots)
        h == delivered[i].vote.hash
    IN  /\ TipProcessed(delivered[i], root_bank)
        /\ ~OverVoteThreshold(s, VotersUpTo(delivered, i - 1, s, h))
        /\ OverVoteThreshold(s, VotersUpTo(delivered, i, s, h))

\* the (tip, hash) that cross VOTE_THRESHOLD_SIZE, in the order of the votes
Crossings(delivered) ==
    LET at == SelectSeq([i \in 1..Len(delivered) |-> i], LAMBDA i : CrossesAt(delivered, i))
    IN  [k \in 1..Len(at) |-> <<Last(delivered[at[k]].vote.slots), delivered[at[k]].vote.hash>>]

\* C31: the list a call of listen_and_confirm_votes returns, which
\* process_votes_loop hands to add_new_optimistic_confirmed_slots, holds
\* (tip, hash) of exactly the votes of the batch that bring the stake of
\* their (tip, hash) over VOTE_THRESHOLD_SIZE, each once and in the order of
\* the votes, with or without a bank_notification_sender; with the sender,
\* OptimisticallyConfirmed(tip) is sent for each of them in that order, and
\* without it nothing is sent on that bus.
C31_ReturnsCrossings ==
    [][calls' = calls + 1 =>
        LET crossed == Crossings(DeliveredVotes(vote_tracker.epoch_authorized_voters,
                                                last_batch'[1], last_batch'[2]))
        IN  /\ confirmed_slots' = confirmed_slots \o crossed
            /\ \A i, j \in 1..Len(crossed) : crossed[i] = crossed[j] => i = j
            /\ buses'.bank_notification =
                 buses.bank_notification \o
                 (IF "bank_notification" \in configured
                  THEN [k \in 1..Len(crossed) |-> crossed[k][1]] ELSE <<>>)]_vars

\* without a bank_notification_sender, one call returned (2, H0) and then
\* (1, H0), which crossed in that order, and nothing was sent on the bus
C31_Witness ==
    /\ "bank_notification" \notin configured
    /\ calls = 1
    /\ confirmed_slots = << <<2, "H0">>, <<1, "H0">> >>
    /\ buses.bank_notification = <<>>

\* with the sender, the same call sent OptimisticallyConfirmed for both slots
C31_WitnessNotified ==
    /\ "bank_notification" \in configured
    /\ calls = 1
    /\ confirmed_slots = << <<2, "H0">>, <<1, "H0">> >>
    /\ buses.bank_notification = <<2, 1>>

\* the state of a call of filter_and_confirm_with_new_votes before its first vote
CallState ==
    [ slot_vote_trackers |-> Trackers,
      diff |-> EmptyMap,
      new_optimistic_confirmed_slots |-> <<>>,
      gossip_verified_vote_hash |-> buses.gossip_verified_vote_hash,
      duplicate_confirmed |-> buses.duplicate_confirmed,
      bank_notification |-> buses.bank_notification,
      notify_vote |-> buses.notify_vote,
      verified_vote |-> buses.verified_vote,
      send_failed |-> FALSE ]

\* the voter is in the voted set of (s, h)
InVotedSet(v, s, h) ==
    /\ s \in DOMAIN Trackers
    /\ h \in DOMAIN Trackers[s].optimistic_votes_tracker
    /\ v \in Trackers[s].optimistic_votes_tracker[h].voted

\* C32: a vote of replay whose voter is in the voted set of its (last slot,
\* hash) leaves the call as it was: no slot enters the diff, no field of a tracker
\* changes, nothing is sent and nothing is pushed; the same vote from gossip puts
\* every slot of the vote that is above the root into the diff, marked as seen in
\* gossip, and also sends nothing and changes no hash tracker.
C32_ReplayDuplicateStops ==
    \A v \in VoteAccountKeys : \A c \in VoteContents \cup {UnknownEpochVote} :
        InVotedSet(v, Last(c.slots), c.hash) =>
            /\ track_new_votes_and_notify_confirmations(CallState, c, v, root_bank,
                                                        FALSE, LoopSenders) = CallState
            /\ track_new_votes_and_notify_confirmations(CallState, c, v, root_bank,
                                                        TRUE, LoopSenders) =
                 [CallState EXCEPT !.diff =
                     [s \in {s \in Range(c.slots) : s > root_bank} |-> [x \in {v} |-> TRUE]]]

\* v1 is in the voted set of (2, H0), which is above the root 1 while slot 1 of
\* the vote is not, and the last call delivered that vote again, one of its
\* deliveries coming from replay after the first
C32_Witness ==
    /\ InVotedSet("v1", 2, "H0")
    /\ root_bank = 1
    /\ <<<<"v1", 2, "H0">>, "replay">> \in seen.tip_repeat
    /\ "replay" \in last_call
    /\ calls = 2

\* the epoch fields of a VoteTracker agree with the root bank of slot r
EpochsOfRoot(vt, r) ==
    /\ vt.current_epoch = get_epoch(r)
    /\ vt.leader_schedule_epoch = get_leader_schedule_epoch(r)
    /\ vt.current_epoch <= vt.leader_schedule_epoch
    /\ DOMAIN vt.epoch_authorized_voters = vt.current_epoch..vt.leader_schedule_epoch
    /\ \A e \in DOMAIN vt.epoch_authorized_voters :
           vt.epoch_authorized_voters[e] = bank_epoch_authorized_voters(e)

\* C36: after VoteTracker::new and after every progress_with_new_root_bank with
\* a root that does not decrease, current_epoch is the epoch of the root bank,
\* leader_schedule_epoch is the leader schedule epoch of its slot, the first is
\* at most the second, and epoch_authorized_voters holds exactly the epochs from
\* the one to the other, each with the authorized voters of the root bank's epoch
\* stakes. It is stated of the VoteTracker of the loop, of the one the loop would
\* have after progressing to any later root, and of a new one at any root.
C36_EpochsFollowRoot ==
    /\ EpochsOfRoot(vote_tracker, last_progress_root)
    /\ \A r \in last_progress_root..MaxSlot :
           EpochsOfRoot(progress_with_new_root_bank(vote_tracker, r), r)
    /\ \A r \in 0..MaxSlot : EpochsOfRoot(NewVoteTracker(r), r)

\* the loop progressed to a root of epoch 1 after votes were processed: epoch 0
\* is purged, epoch 2 is installed
C36_Witness ==
    /\ last_progress_root = 2
    /\ calls > 0
    /\ vote_tracker.current_epoch = 1
    /\ vote_tracker.leader_schedule_epoch = 2
    /\ DOMAIN vote_tracker.epoch_authorized_voters = {1, 2}
    /\ 2 \in DOMAIN Trackers

\* the voters marked as seen in gossip in the voted map of a slot
GossipVoters(s) == {v \in DOMAIN Trackers[s].voted : Trackers[s].voted[v]}

\* C37: between the calls of filter_and_confirm_with_new_votes, for every slot
\* with a tracker, gossip_only_stake is the sum, over the voters marked true in
\* voted, of the voter's stake in the epoch stakes of the epoch of the slot, a
\* voter without a vote account in that epoch counting 0.
C37_GossipOnlyStakeIsSum ==
    \A s \in DOMAIN Trackers :
        Trackers[s].gossip_only_stake = EpochStakeOf(s, GossipVoters(s))

\* v2 voted for the slots 3 and 4 in gossip and v1 in replay: v2 has no vote
\* account in the epoch of slot 3 and a stake of 1 in the epoch of slot 4
C37_Witness ==
    /\ {3, 4} \subseteq DOMAIN Trackers
    /\ Trackers[3].voted = [v \in VoteAccountKeys |-> v = "v2"]
    /\ Trackers[4].voted = [v \in VoteAccountKeys |-> v = "v2"]
    /\ Trackers[3].gossip_only_stake = 0
    /\ Trackers[4].gossip_only_stake = 1

\* a gossip vote of v with last slot s and hash h was processed
AcceptedFromGossip(v, s, h) ==
    /\ <<v, s, h>> \in DOMAIN seen.tip_first
    /\ \/ seen.tip_first[<<v, s, h>>] = "gossip"
       \/ << <<v, s, h>>, "gossip" >> \in seen.tip_repeat

\* C38: between the calls of filter_and_confirm_with_new_votes, for every slot
\* with a tracker and every hash, each voter of the voted set of the hash is a
\* key of the voted map of the slot, and its entry is true when a gossip vote of
\* the voter for that slot and hash was processed.
C38_HashVotersAreSlotVoters ==
    \A s \in DOMAIN Trackers : \A h \in DOMAIN Trackers[s].optimistic_votes_tracker :
        \A v \in Trackers[s].optimistic_votes_tracker[h].voted :
            /\ v \in DOMAIN Trackers[s].voted
            /\ AcceptedFromGossip(v, s, h) => Trackers[s].voted[v]

\* both voters are in the voted set of (1, H0), first from replay; v2's vote
\* came again from gossip and v2 alone is marked true
C38_Witness ==
    /\ 1 \in DOMAIN Trackers
    /\ "H0" \in DOMAIN Trackers[1].optimistic_votes_tracker
    /\ Trackers[1].optimistic_votes_tracker["H0"].voted = {"v1", "v2"}
    /\ seen.tip_first[<<"v2", 1, "H0">>] = "replay"
    /\ AcceptedFromGossip("v2", 1, "H0")
    /\ ~AcceptedFromGossip("v1", 1, "H0")
    /\ Trackers[1].voted = [v \in VoteAccountKeys |-> v = "v2"]

\* no voter had processed votes for two hashes of one last slot
NoVoterOfTwoHashes ==
    \A k1, k2 \in DOMAIN seen.tip_first :
        (k1[1] = k2[1] /\ k1[2] = k2[2]) => k1[3] = k2[3]

\* the hashes of slot s whose stake is over the fraction
HashesOver(s, fraction) ==
    IF s \notin DOMAIN Trackers THEN {}
    ELSE {h \in DOMAIN Trackers[s].optimistic_votes_tracker :
            Trackers[s].optimistic_votes_tracker[h].stake * fraction[2] >
                fraction[1] * total_stake(get_epoch(s))}

\* C39: as long as no voter has voted for two hashes of the same last slot, for
\* every slot at most one hash has a stake over DUPLICATE_THRESHOLD and at most
\* one over VOTE_THRESHOLD_SIZE, at most one (slot, hash) of the slot was sent
\* as duplicate confirmed, at most one was returned as optimistically confirmed
\* and at most one OptimisticallyConfirmed(slot) was sent.
C39_QuorumIntersection ==
    NoVoterOfTwoHashes =>
        \A s \in VotedSlots :
            /\ Cardinality(HashesOver(s, <<13, 25>>)) <= 1
            /\ Cardinality(HashesOver(s, <<2, 3>>)) <= 1
            /\ Cardinality({h \in Hashes :
                   << <<s, h>> >> \in Range(buses.duplicate_confirmed)}) <= 1
            /\ Cardinality({h \in Hashes : <<s, h>> \in Range(confirmed_slots)}) <= 1
            /\ Count(buses.bank_notification, s) <= 1

\* v1 voted for (1, H0) and v2 for (1, H1): H0 alone is over DUPLICATE_THRESHOLD
\* and was sent as duplicate confirmed
C39_Witness ==
    /\ NoVoterOfTwoHashes
    /\ {<<"v1", 1, "H0">>, <<"v2", 1, "H1">>} \subseteq DOMAIN seen.tip_first
    /\ 1 \in DOMAIN Trackers
    /\ DOMAIN Trackers[1].optimistic_votes_tracker = {"H0", "H1"}
    /\ HashesOver(1, <<13, 25>>) = {"H0"}
    /\ buses.duplicate_confirmed = << << <<1, "H0">> >> >>

\* both voters voted for both hashes of slot 1 and OptimisticallyConfirmed(1)
\* was sent twice
TwoHashesConfirmed ==
    /\ ~NoVoterOfTwoHashes
    /\ Count(buses.bank_notification, 1) = 2

\* every (slot, hash) of the list and every slot of the notifications is among
\* the messages sent as duplicate confirmed
DuplicateConfirmedFirst(new_optimistic_confirmed_slots, bank_notification, duplicate_confirmed) ==
    /\ \A k \in Range(new_optimistic_confirmed_slots) : << k >> \in Range(duplicate_confirmed)
    /\ \A s \in Range(bank_notification) :
        \E h \in Hashes : << <<s, h>> >> \in Range(duplicate_confirmed)

\* the same, after the calls made so far and after one more vote of any voter,
\* content and origin
DuplicateConfirmedFirstAlways ==
    /\ DuplicateConfirmedFirst(confirmed_slots, buses.bank_notification,
                               buses.duplicate_confirmed)
    /\ \A v \in VoteAccountKeys : \A c \in VoteContents : \A is_gossip \in BOOLEAN :
        Let(track_new_votes_and_notify_confirmations(CallState, c, v, root_bank,
                                                     is_gossip, LoopSenders),
            LAMBDA after :
                DuplicateConfirmedFirst(confirmed_slots \o after.new_optimistic_confirmed_slots,
                                        after.bank_notification, after.duplicate_confirmed))

\* C40 as stated: every (slot, hash) returned as optimistically confirmed, and
\* every slot of an OptimisticallyConfirmed notification, was sent as duplicate
\* confirmed by the same vote or an earlier one, whoever calls
\* listen_and_confirm_votes
C40_Original == DuplicateConfirmedFirstAlways

\* C40: when listen_and_confirm_votes is given a cluster_confirmed_slot_sender,
\* every (slot, hash) returned as optimistically confirmed, and every slot of an
\* OptimisticallyConfirmed notification, was sent as duplicate confirmed by the
\* same vote or an earlier one.
C40_DuplicateConfirmedFirst ==
    "duplicate_confirmed" \in configured => DuplicateConfirmedFirstAlways

\* v1's vote brought (1, H0) over DUPLICATE_THRESHOLD in the first call and v2's
\* brought it over VOTE_THRESHOLD_SIZE in the second
C40_Witness ==
    /\ "duplicate_confirmed" \in configured
    /\ calls = 2
    /\ last_batch = << <<>>, <<[vote_pubkey |-> "v2", vote |-> [slots |-> <<1>>, hash |-> "H0"]]>> >>
    /\ buses.duplicate_confirmed = << << <<1, "H0">> >> >>
    /\ confirmed_slots = << <<1, "H0">> >>
    /\ seen.tip_order[1][1] = "v1"

\* the SlotVoteTracker the shared VoteTracker holds for each slot
SharedTrackers ==
    [s \in DOMAIN shared.slot_vote_trackers |-> shared.arcs[shared.slot_vote_trackers[s]]]

\* every thread has returned from its calls
AllDone == \A t \in Callers : shared.thread[t].pc = "done"

\* both threads make one call of filter_and_confirm_with_new_votes
TwoCalls ==
    \A t \in Callers :
        /\ Len(shared.programs[t]) = 1
        /\ shared.programs[t][1].fn = "filter_and_confirm_with_new_votes"

\* the trackers after the call c made alone on a VoteTracker of the genesis
\* bank that holds `trackers`; a gossip vote is a transaction signed by the
\* authorized voter of the epoch of its last slot, when there is one
CallOn(trackers, c) ==
    LET authorized == bank_epoch_authorized_voters(get_epoch(Last(c.vote.slots)))
        signer == IF c.vote_pubkey \in DOMAIN authorized THEN authorized[c.vote_pubkey]
                  ELSE c.vote_pubkey
    IN  filter_and_confirm_with_new_votes(
            [NewVoteTracker(0) EXCEPT !.slot_vote_trackers = trackers],
            IF c.is_gossip THEN <<new_vote_transaction(c.vote_pubkey, c.vote, signer)>>
            ELSE <<>>,
            IF c.is_gossip THEN <<>>
            ELSE <<[vote_pubkey |-> c.vote_pubkey, vote |-> c.vote]>>,
            0, NoBuses, LoopSenders, <<"v1", "v2">>).slot_vote_trackers

\* the two calls made one after the other
OneAfterTheOther(c1, c2) ==
    Let(CallOn(EmptyMap, c1), LAMBDA trackers : CallOn(trackers, c2))

\* a call beside a reader leaves what the call leaves when made alone
CallBesideReader ==
    (/\ AllDone
     /\ Len(shared.programs["first"]) = 1
     /\ shared.programs["second"][1].fn = "get_slot_vote_tracker")
        => SharedTrackers = CallOn(EmptyMap, shared.programs["first"][1])

HeldBy(t) == {h \in shared.held : h[1] = t}

\* C34: no thread takes or holds the lock of slot_vote_trackers while it holds
\* the lock of a SlotVoteTracker, and whenever a thread has not returned from its
\* calls some thread can take its next step: the thread of process_votes_loop
\* (filter_and_confirm_with_new_votes, purge_stale_state) and the other holders
\* of the VoteTracker never all wait for one another.
C34_LockOrderNoDeadlock ==
    /\ \A t \in Callers :
        (\E h \in HeldBy(t) : h[2][1] = "slot_tracker") =>
            /\ \A h \in HeldBy(t) : h[2] # SLOT_VOTE_TRACKERS
            /\ Wants(shared.thread[t]) = <<>> \/ Wants(shared.thread[t])[1] # SLOT_VOTE_TRACKERS
    /\ ~AllDone =>
        \E t \in Callers :
            /\ shared.thread[t].pc # "done"
            /\ Wants(shared.thread[t]) = <<>> \/ Locks(t)

\* the first thread waits for the write lock of a SlotVoteTracker that the
\* reader holds for reading
C34_Witness ==
    /\ shared.thread["first"].pc \in {"track_write", "fold_write"}
    /\ ~Locks("first")
    /\ shared.programs["second"][1].fn = "get_slot_vote_tracker"
    /\ <<"second", SlotTrackerLock(shared.thread["first"].slot_tracker), "r">> \in shared.held

====
